---- MODULE Spec2Model ----
(***************************************************************************)
(* Monitoring scheduler and alert-evaluation pipeline of monitorix:        *)
(* backend/scheduler.py, backend/alert_rules.py, the notification fan-out  *)
(* (email_notifications.py, webhooks.py, notification_channels.py) and the *)
(* API handlers that call into them (routers/nodes.py, routers/services.py,*)
(* routers/alerts.py, tasks.py).                                           *)
(*                                                                         *)
(* The relational store is modelled by its committed rows.  A handler that *)
(* runs on the event loop is one action per stretch of code between two    *)
(* commits that other coroutines cannot interleave with; the Celery worker *)
(* of tasks.py is another OS process, so its statements are separate steps.*)
(***************************************************************************)
EXTENDS Integers, Sequences, FiniteSets, TLC

(* ---------------------------------------------------------------- bounds *)
NumNodes == 1
NumServices == 2
NumRules == 2
MaxAlerts == 3
MaxTime == 7
NumJobNodes == 2
NumConns == 3
RetentionDays == 2
MaxMetrics == 3
NumTargets == 2
MaxClock == 1

(* Python None / SQL NULL.  Ids are positive primary keys, times are >= 0. *)
NULL == -1

Nodes == 1..NumNodes
Services == 1..NumServices
RuleIds == 1..NumRules

(* Python truthiness of an optional integer: None and 0 are falsy.         *)
Truthy(x) == x # NULL /\ x # 0

(* F applied to the value of v: v is computed once, however often F uses   *)
(* its argument.                                                           *)
With(v, F(_)) == CHOOSE r \in {F(x) : x \in {v}} : TRUE

(* ------------------------------------------------- notification receivers *)
(* Rows of the webhooks table.                                             *)
WebhookCfg ==
  [ wh_all |-> [is_active |-> TRUE,  alert_types |-> {}],
    wh_svc |-> [is_active |-> TRUE,  alert_types |-> {"service_down"}],
    wh_off |-> [is_active |-> FALSE, alert_types |-> {}] ]

(* Rows of the notification_channels table.                                *)
ChannelCfg ==
  [ ch_all  |-> [is_active |-> TRUE, type |-> "slack",
                 alert_types |-> {}, severity_filter |-> {}],
    ch_crit |-> [is_active |-> TRUE, type |-> "discord",
                 alert_types |-> {"high_usage", "node_down"},
                 severity_filter |-> {"critical"}] ]

(* settings.alert_email_enabled, the SMTP settings and alert_email_to.     *)
EmailConfigured == TRUE

Webhooks == DOMAIN WebhookCfg
Channels == DOMAIN ChannelCfg
Receivers == {"email"} \cup Webhooks \cup Channels

(* `if x.alert_types: if alert_type not in x.alert_types: continue`        *)
Admits(allow, x) == allow = {} \/ x \in allow

(* send_alert_notification -> send_email: one SMTP attempt when configured *)
EmailTargets == IF EmailConfigured THEN {"email"} ELSE {}

(* send_alert_webhooks: the webhooks an HTTP request is issued to.         *)
WebhookTargets(alert_type) ==
  {w \in Webhooks : WebhookCfg[w].is_active
                    /\ Admits(WebhookCfg[w].alert_types, alert_type)}

(* send_alert_notifications without the check of severity_filter.         *)
ChannelTargets_NoSeverityFilter(alert_type, severity) ==
  {c \in Channels : /\ ChannelCfg[c].is_active
                    /\ Admits(ChannelCfg[c].alert_types, alert_type)
                    /\ ChannelCfg[c].type \in {"slack", "discord"}}

(* send_alert_notifications: the chat channels an HTTP request is issued to*)
ChannelTargets(alert_type, severity) ==
  {c \in Channels : /\ ChannelCfg[c].is_active
                    /\ Admits(ChannelCfg[c].alert_types, alert_type)
                    /\ Admits(ChannelCfg[c].severity_filter, severity)
                    /\ ChannelCfg[c].type \in {"slack", "discord"}}

FanoutTargets(alert_type, severity) ==
  EmailTargets \cup WebhookTargets(alert_type)
               \cup ChannelTargets(alert_type, severity)

(* ------------------------------------------------------------------ state *)
VARIABLES
  now,        \* datetime.utcnow(), in minutes
  nodes,      \* committed rows of table nodes
  services,   \* committed rows of table services
  rules,      \* committed rows of table alert_rules
  alerts,     \* committed rows of table alerts, index = primary key
  attempts,   \* attempts[a][r]: outbound delivery attempts for alert a to r
  health,     \* status of the latest health_checks row of each service
  task,       \* the Celery worker process running check_service
  lastOp,     \* the operation that produced the current state
  lastEval,   \* arguments and rule query result of the last rule evaluation
  vms,        \* committed rows of table vms, index = primary key
  calls,      \* Proxmox API calls issued by the last operation
  deleted,    \* primary keys of the node rows that were deleted
  job,        \* the run of run_node_checks or run_service_checks in progress
  vmtask,     \* the Celery worker process running sync_vms
  registry,   \* ConnectionManager.active_connections
  opened,     \* the number of websocket connections accepted so far
  bcast,      \* the ConnectionManager.broadcast call in progress
  outage,     \* the receivers whose endpoint fails a delivery at present
  metrics,    \* recorded_at of the committed rows of table metrics
  cleanup_enabled, \* settings.metrics_cleanup_enabled
  probe,      \* the last call of HealthChecker.check_service and its outcome
  sched,      \* the two periodic jobs as coroutines of the event loop
  cmp,        \* the last call of evaluate_rule and what it returned
  users,      \* committed rows of table users, by username
  issued,     \* the access tokens handed out in a login response
  http,       \* the last request to the auth endpoints and its response
  checked,    \* the last call of validate_password and what it returned
  trace       \* what the last unit of work did, in program order

vars == <<now, nodes, services, rules, alerts, attempts, health, task,
          lastOp, lastEval, vms, calls, deleted, job, vmtask, outage,
          trace, registry, opened, bcast, metrics, cleanup_enabled, probe, sched, cmp, users, issued, http, checked>>

(* main.py: the websocket side of the server process.                      *)
live == <<registry, opened, bcast>>

(* The components no scheduler job or request handler is running in.       *)
idle == <<probe, sched, cmp>>

(* The users and their sessions.                                           *)
accounts == <<users, issued, http, checked>>

(* The metric history and the settings of its retention job.               *)
others == <<metrics, cleanup_enabled, idle, accounts>>

(* The state of the server process beside the tables the checks write.     *)
runtime == <<deleted, job, vmtask, outage, registry, opened, bcast, others>>

(* What the handlers outside the node job leave alone.                     *)
nodeSide == <<vms, calls>>

(* The database as the handlers thread it through their statements.        *)
Store == [alerts |-> alerts, rules |-> rules, attempts |-> attempts,
          log |-> <<>>]

(* One statement of a handler that matters for the order of its effects.   *)
Log(db, ev, arg) == [db EXCEPT !.log = Append(@, [ev |-> ev, arg |-> arg])]

NoAttempts == [r \in Receivers |-> 0]

(* Alert(...) + db.add + db.commit: a new unresolved row.                  *)
NewAlert(alert_type, severity, node_id, vm_id, service_id) ==
  [alert_type |-> alert_type, severity |-> severity,
   node_id |-> node_id, vm_id |-> vm_id, service_id |-> service_id,
   is_resolved |-> FALSE, resolved_at |-> NULL]

(* The order of the fan-out: the email, then the rows of the webhook       *)
(* query, then the rows of the channel query.                              *)
ReceiverOrder ==
  <<"email", "wh_all", "wh_svc", "wh_off", "ch_all", "ch_crit">>

TargetSeq(alert_type, severity) ==
  LET Admitted(r) == r \in FanoutTargets(alert_type, severity)
  IN SelectSeq(ReceiverOrder, Admitted)

(* send_email, send_webhook, send_slack_notification and                   *)
(* send_discord_notification: one request; an error of the endpoint is     *)
(* caught inside the call, which logs it and returns False.                *)
Deliver(att, r) == [att EXCEPT ![r] = @ + 1]

RECURSIVE DeliverLoop_StopOnFailure(_, _)
(* The fan-out with the error of a failed delivery left uncaught.          *)
DeliverLoop_StopOnFailure(att, order) ==
  IF order = <<>>
  THEN att
  ELSE IF Head(order) \in outage
       THEN Deliver(att, Head(order))
       ELSE DeliverLoop_StopOnFailure(Deliver(att, Head(order)), Tail(order))

RECURSIVE DeliverLoop(_, _)
(* The three calls in a row and the loops inside them: every receiver is   *)
(* attempted, whatever the earlier attempts returned.                      *)
DeliverLoop(att, order) ==
  IF order = <<>>
  THEN att
  ELSE DeliverLoop(Deliver(att, Head(order)), Tail(order))

(* send_alert_notification; send_alert_webhooks; send_alert_notifications  *)
(* for the alert with primary key a.                                       *)
Dispatch(db, a, alert_type, severity) ==
  [db EXCEPT !.attempts[a] = DeliverLoop(@, TargetSeq(alert_type, severity))]

(* The fan-out started before the alert is committed.                      *)
CreateAndNotify_NotifyFirst(db, alert_type, severity, node_id, vm_id, service_id) ==
  LET db1 == [db EXCEPT
                !.alerts = Append(@, NewAlert(alert_type, severity,
                                              node_id, vm_id, service_id)),
                !.attempts = Append(@, NoAttempts)]
  IN Log(Dispatch(Log(db1, "notify", alert_type),
                  Len(db1.alerts), alert_type, severity),
         "commit_alert", alert_type)

(* db.add(alert); db.commit(); db.refresh(alert) followed by the fan-out.  *)
CreateAndNotify(db, alert_type, severity, node_id, vm_id, service_id) ==
  LET db1 == [db EXCEPT
                !.alerts = Append(@, NewAlert(alert_type, severity,
                                              node_id, vm_id, service_id)),
                !.attempts = Append(@, NoAttempts)]
  IN Log(Dispatch(Log(db1, "commit_alert", alert_type),
                  Len(db1.alerts), alert_type, severity),
         "notify", alert_type)

AlertIds(db) == 1..Len(db.alerts)

(* db.query(Alert).filter(Alert.service_id == id, Alert.is_resolved == False) *)
UnresolvedForService(db, s) ==
  {a \in AlertIds(db) : db.alerts[a].service_id = s
                        /\ ~db.alerts[a].is_resolved}

(* ------------------------------------------------------- alert_rules.py *)
(* Metric values and thresholds are floats; the model counts thousandths.  *)
Scale == 1000
(* 0.01, the tolerance of the `==` comparator.                             *)
Epsilon == 10

Abs(x) == IF x < 0 THEN -x ELSE x

(* evaluate_rule with `==` as exact equality.                              *)
evaluate_rule_ExactEquality(rule, metric_value) ==
  CASE rule.operator = ">"  -> metric_value > rule.threshold
    [] rule.operator = "<"  -> metric_value < rule.threshold
    [] rule.operator = ">=" -> metric_value >= rule.threshold
    [] rule.operator = "<=" -> metric_value <= rule.threshold
    [] rule.operator = "==" -> metric_value = rule.threshold
    [] OTHER -> FALSE

(* evaluate_rule                                                           *)
evaluate_rule(rule, metric_value) ==
  CASE rule.operator = ">"  -> metric_value > rule.threshold
    [] rule.operator = "<"  -> metric_value < rule.threshold
    [] rule.operator = ">=" -> metric_value >= rule.threshold
    [] rule.operator = "<=" -> metric_value <= rule.threshold
    [] rule.operator = "==" -> Abs(metric_value - rule.threshold) < Epsilon
    [] OTHER -> FALSE

(* check_cooldown with `>=` in place of `>`.                               *)
check_cooldown_Inclusive(rule, t) ==
  \/ rule.last_triggered = NULL
  \/ t >= rule.last_triggered + rule.cooldown_minutes

(* check_cooldown: TRUE when the rule may trigger at time t.               *)
check_cooldown(rule, t) ==
  \/ rule.last_triggered = NULL
  \/ t > rule.last_triggered + rule.cooldown_minutes

(* One scope filter of the rule query: `if id: (col == id) | col IS NULL`  *)
(* `else: col IS NULL`.                                                    *)
ScopeFilter(col, id) ==
  IF Truthy(id) THEN (col = id \/ col = NULL) ELSE col = NULL

(* The rule query without the filter on node_id.                           *)
SelectedRules_NoNodeFilter(db, metric_type, node_id, vm_id, service_id) ==
  {r \in DOMAIN db.rules :
     /\ db.rules[r].is_active
     /\ db.rules[r].metric_type = metric_type
     /\ ScopeFilter(db.rules[r].vm_id, vm_id)
     /\ ScopeFilter(db.rules[r].service_id, service_id)}

(* evaluate_alert_rules: the rows `query.all()` returns.                   *)
SelectedRules(db, metric_type, node_id, vm_id, service_id) ==
  {r \in DOMAIN db.rules :
     /\ db.rules[r].is_active
     /\ db.rules[r].metric_type = metric_type
     /\ ScopeFilter(db.rules[r].node_id, node_id)
     /\ ScopeFilter(db.rules[r].vm_id, vm_id)
     /\ ScopeFilter(db.rules[r].service_id, service_id)}

(* `Alert.col == (id if id else None)`: SQL equality, NULL matched by IS.  *)
KeyOf(id) == IF Truthy(id) THEN id ELSE NULL

(* The dedup query matching on node_id only.                               *)
ExistingHighUsage_NodeOnly(db, node_id, vm_id, service_id) ==
  {a \in AlertIds(db) :
     /\ db.alerts[a].alert_type = "high_usage"
     /\ ~db.alerts[a].is_resolved
     /\ db.alerts[a].node_id = KeyOf(node_id)}

(* evaluate_alert_rules: the unresolved high_usage alerts of the subject.  *)
ExistingHighUsage(db, node_id, vm_id, service_id) ==
  {a \in AlertIds(db) :
     /\ db.alerts[a].alert_type = "high_usage"
     /\ ~db.alerts[a].is_resolved
     /\ db.alerts[a].node_id = KeyOf(node_id)
     /\ db.alerts[a].vm_id = KeyOf(vm_id)
     /\ db.alerts[a].service_id = KeyOf(service_id)}

(* The trigger without the dedup query.                                    *)
TriggerRule_NoDedup(db, r, t, node_id, vm_id, service_id) ==
  LET db1 == CreateAndNotify(db, "high_usage", db.rules[r].severity,
                             node_id, vm_id, service_id)
  IN Log([db1 EXCEPT !.rules[r].last_triggered = t], "alert", "high_usage")

(* The trigger that stamps the rule also when it skips.                    *)
TriggerRule_StampWhenSkipped(db, r, t, node_id, vm_id, service_id) ==
  IF ExistingHighUsage(db, node_id, vm_id, service_id) # {}
  THEN [db EXCEPT !.rules[r].last_triggered = t]
  ELSE LET db1 == CreateAndNotify(db, "high_usage", db.rules[r].severity,
                                  node_id, vm_id, service_id)
       IN Log([db1 EXCEPT !.rules[r].last_triggered = t],
              "alert", "high_usage")

(* The body of the loop for a breaching rule out of cooldown: skip when an *)
(* unresolved alert of the subject exists, else persist the Alert, set     *)
(* last_triggered, notify and broadcast the `alert` event.                 *)
TriggerRule(db, r, t, node_id, vm_id, service_id) ==
  IF ExistingHighUsage(db, node_id, vm_id, service_id) # {}
  THEN db
  ELSE LET db1 == CreateAndNotify(db, "high_usage", db.rules[r].severity,
                                  node_id, vm_id, service_id)
       IN Log([db1 EXCEPT !.rules[r].last_triggered = t],
              "alert", "high_usage")

(* One iteration of `for rule in rules`.                                   *)
EvaluateOne(db, r, t, metric_value, node_id, vm_id, service_id) ==
  IF ~check_cooldown(db.rules[r], t)
  THEN db
  ELSE IF evaluate_rule(db.rules[r], metric_value)
       THEN TriggerRule(db, r, t, node_id, vm_id, service_id)
       ELSE db

RECURSIVE EvaluateLoop(_, _, _, _, _, _, _)
EvaluateLoop(db, order, t, metric_value, node_id, vm_id, service_id) ==
  IF order = <<>>
  THEN db
  ELSE With(EvaluateOne(db, Head(order), t, metric_value,
                        node_id, vm_id, service_id),
            LAMBDA d : EvaluateLoop(d, Tail(order), t, metric_value,
                                    node_id, vm_id, service_id))

(* The orders in which a query without ORDER BY may return a set of rows.  *)
Orders(S) ==
  {o \in [1..Cardinality(S) -> S] : \A i, j \in DOMAIN o : i # j => o[i] # o[j]}

(* evaluate_alert_rules; perm is the order in which the rule table yields  *)
(* its rows to `query.all()`.                                              *)
evaluate_alert_rules(db, perm, t, mtype, value, node_id, vm_id, service_id) ==
  LET Body(d) ==
        LET selected == SelectedRules(d, mtype, node_id, vm_id, service_id)
            InQuery(r) == r \in selected
        IN EvaluateLoop(Log(d, "evaluate", mtype), SelectSeq(perm, InQuery),
                        t, value, node_id, vm_id, service_id)
  IN With(db, Body)

(* ------------------------------------------------- scheduler.check_service *)
(* check_service without the `if not existing_alert` test.                 *)
ServiceDown_NoDedup(db, s, existing) ==
  CreateAndNotify(db, "service_down", "critical", NULL, NULL, s)

(* The `down` branch: create the Alert and notify unless the query for an  *)
(* unresolved alert of the service returned a row.                         *)
ServiceDown(db, s, existing) ==
  IF ~existing
  THEN CreateAndNotify(db, "service_down", "critical", NULL, NULL, s)
  ELSE db

(* The `else` branch setting the flag and leaving resolved_at alone.       *)
ServiceRecovered_FlagOnly(db, s, t) ==
  [db EXCEPT !.alerts =
     [a \in DOMAIN @ |->
        IF @[a].service_id = s /\ ~@[a].is_resolved
        THEN [@[a] EXCEPT !.is_resolved = TRUE]
        ELSE @[a]]]

(* The `else` branch: the bulk UPDATE of the service's unresolved alerts.  *)
ServiceRecovered(db, s, t) ==
  [db EXCEPT !.alerts =
     [a \in DOMAIN @ |->
        IF @[a].service_id = s /\ ~@[a].is_resolved
        THEN [@[a] EXCEPT !.is_resolved = TRUE, !.resolved_at = t]
        ELSE @[a]]]

(* The body of check_service after the probe returned `result`: on the     *)
(* event loop nothing runs between the query and the commit.               *)
CheckServiceBody(db, s, result, t) ==
  LET d0 == Log(Log(db, "poll", "service"), "stage", "health_check")
      d1 == IF result = "down"
            THEN ServiceDown(d0, s, UnresolvedForService(d0, s) # {})
            ELSE ServiceRecovered(d0, s, t)
  IN Log(Log(d1, "commit", "health_check"), "service_update", result)

(* A new Service row with the column defaults of models.Service.        *)
NewService == [exists |-> TRUE, is_active |-> TRUE, maintenance_mode |-> FALSE]

(* The worker before it picks up a task.                                  *)
IdleTask == [pc |-> "idle", service |-> NULL, result |-> "up",
             existing |-> FALSE]

Results == {"up", "down", "warning"}

Commit(db) ==
  \E d \in {db} :
    /\ Len(d.alerts) <= MaxAlerts
    /\ alerts' = d.alerts
    /\ rules' = d.rules
    /\ attempts' = d.attempts
    /\ trace' = d.log

(* run_service_checks: one unit of work of the periodic service job.       *)
PeriodicServiceCheck(s, result) ==
  /\ services[s].exists
  /\ services[s].is_active
  /\ ~services[s].maintenance_mode
  /\ Commit(CheckServiceBody(Store, s, result, now))
  /\ health' = [health EXCEPT ![s] = result]
  /\ lastOp' = [op |-> "check_service", by |-> "periodic", id |-> s,
                res |-> result]
  /\ UNCHANGED <<runtime, now, nodes, services, task, lastEval, nodeSide>>

(* routers/services.py check_service_manual, and the asyncio task that     *)
(* bulk_create_services starts when Celery is disabled.                    *)
ManualServiceCheck(s, result) ==
  /\ services[s].exists
  /\ Commit(CheckServiceBody(Store, s, result, now))
  /\ health' = [health EXCEPT ![s] = result]
  /\ lastOp' = [op |-> "check_service", by |-> "manual", id |-> s,
                res |-> result]
  /\ UNCHANGED <<runtime, now, nodes, services, task, lastEval, nodeSide>>

(* routers/services.py toggle_service_maintenance_mode                     *)
ToggleServiceMaintenance(s, m) ==
  /\ services[s].exists
  /\ services' = [services EXCEPT ![s].maintenance_mode = m]
  /\ lastOp' = [op |-> "service_maintenance", by |-> "api", id |-> s,
                res |-> IF m THEN "on" ELSE "off"]
  /\ UNCHANGED <<runtime, now, nodes, rules, alerts, attempts, trace, health, task, lastEval, nodeSide>>

(* The clock.                                                              *)
AdvanceTime ==
  /\ now < MaxTime
  /\ now' = now + 1
  /\ lastOp' = [op |-> "clock", by |-> "clock", id |-> NULL, res |-> "tick"]
  /\ UNCHANGED <<runtime, nodes, services, rules, alerts, attempts, trace, health, task,
                 lastEval, nodeSide>>

(* ------------------------------------- tasks.bulk_create_services_task *)
(* The Celery worker is a separate process with its own session: other    *)
(* processes run between its statements.                                   *)

(* db.add(service); db.commit(): the row becomes visible to the scheduler. *)
TaskCreateService(s) ==
  /\ task.pc = "idle"
  /\ ~services[s].exists
  /\ services' = [services EXCEPT ![s] = NewService]
  /\ task' = [task EXCEPT !.pc = "probe", !.service = s]
  /\ lastOp' = [op |-> "task_create", by |-> "task", id |-> s, res |-> "ok"]
  /\ UNCHANGED <<runtime, now, nodes, rules, alerts, attempts, trace, health, lastEval, nodeSide>>

(* check_service: await HealthChecker.check_service(...)                   *)
TaskProbe(result) ==
  /\ task.pc = "probe"
  /\ task' = [task EXCEPT !.pc = "query", !.result = result]
  /\ lastOp' = [op |-> "task_probe", by |-> "task", id |-> task.service,
                res |-> result]
  /\ UNCHANGED <<runtime, now, nodes, services, rules, alerts, attempts, trace, health,
                 lastEval, nodeSide>>

(* check_service: the SELECT for an unresolved alert of the service.       *)
TaskQuery ==
  /\ task.pc = "query"
  /\ task' = [task EXCEPT
                !.pc = "write",
                !.existing = (UnresolvedForService(Store, task.service) # {})]
  /\ lastOp' = [op |-> "task_query", by |-> "task", id |-> task.service,
                res |-> task.result]
  /\ UNCHANGED <<runtime, now, nodes, services, rules, alerts, attempts, trace, health,
                 lastEval, nodeSide>>

(* check_service: the INSERT or UPDATE, its commit and the notifications.  *)
TaskWrite ==
  /\ task.pc = "write"
  /\ Commit(LET d0 == Log(Log(Store, "poll", "service"),
                          "stage", "health_check")
                d1 == IF task.result = "down"
                      THEN ServiceDown(d0, task.service, task.existing)
                      ELSE ServiceRecovered(d0, task.service, now)
            IN Log(Log(d1, "commit", "health_check"),
                   "service_update", task.result))
  /\ health' = [health EXCEPT ![task.service] = task.result]
  /\ task' = IdleTask
  /\ lastOp' = [op |-> "check_service", by |-> "task", id |-> task.service,
                res |-> task.result]
  /\ UNCHANGED <<runtime, now, nodes, services, lastEval, nodeSide>>

(* ------------------------------------------------ rule engine entry points *)
MetricTypes == {"cpu", "memory"}
MetricValues == {50 * Scale, 95 * Scale}

NoEval == [metric_type |-> "none", value |-> 0, node_id |-> NULL,
           vm_id |-> NULL, service_id |-> NULL, considered |-> {}]

(* A call of evaluate_alert_rules(db, metric_type, metric_value, ...).     *)
Evaluate(perm, metric_type, metric_value, node_id, vm_id, service_id) ==
  /\ Commit(evaluate_alert_rules(Store, perm, now, metric_type, metric_value,
                                 node_id, vm_id, service_id))
  /\ lastEval' = [metric_type |-> metric_type, value |-> metric_value,
                  node_id |-> node_id, vm_id |-> vm_id,
                  service_id |-> service_id,
                  considered |-> SelectedRules(Store, metric_type, node_id,
                                               vm_id, service_id)]
  /\ lastOp' = [op |-> "evaluate", by |-> "engine", id |-> node_id,
                res |-> metric_type]
  /\ UNCHANGED <<runtime, now, nodes, services, health, task, nodeSide>>

(* routers/alerts.py resolve_alert                                         *)
ResolveAlert(a) ==
  /\ a \in 1..Len(alerts)
  /\ alerts' = [alerts EXCEPT ![a].is_resolved = TRUE, ![a].resolved_at = now]
  /\ lastOp' = [op |-> "resolve", by |-> "api", id |-> a, res |-> "ok"]
  /\ UNCHANGED <<runtime, now, nodes, services, rules, attempts, trace, health, task,
                 lastEval, nodeSide>>

(* routers/alerts.py bulk_resolve_alerts: the rows of request.alert_ids    *)
(* that exist and are unresolved get the flag and the time.                *)
BulkResolve(alert_ids) ==
  /\ \E hit \in {{a \in alert_ids \cap (1..Len(alerts)) : ~alerts[a].is_resolved}} :
       /\ alerts' = [a \in 1..Len(alerts) |->
                       IF a \in hit
                       THEN [alerts[a] EXCEPT !.is_resolved = TRUE,
                                              !.resolved_at = now]
                       ELSE alerts[a]]
       /\ lastOp' = [op |-> "bulk_resolve", by |-> "api",
                     id |-> Cardinality(hit), res |-> "ok"]
  /\ UNCHANGED <<runtime, now, nodes, services, rules, attempts, trace, health, task,
                 lastEval, nodeSide>>

(* --------------------------------------------------- scheduler.check_node *)
(* The disk and memory figures of the polls stay below every threshold.    *)
LowValue == 50 * Scale

(* The three evaluate_alert_rules calls for a node's cpu, memory and disk. *)
EvaluateNodeMetrics(db, perm, t, n, cpu) ==
  LET d1 == evaluate_alert_rules(db, perm, t, "cpu", cpu, n, NULL, NULL)
      d2 == evaluate_alert_rules(d1, perm, t, "memory", LowValue, n, NULL, NULL)
  IN evaluate_alert_rules(d2, perm, t, "disk", LowValue, n, NULL, NULL)

(* check_node alerting on every failed connection test.                    *)
NodeOffline_EveryPoll(db, node) ==
  CreateAndNotify(db, "node_down", "critical", node.id, NULL, NULL)

(* check_node, the branch of a failed connection test: alert and notify    *)
(* when the node object still says online.                                 *)
NodeOffline(db, node) ==
  IF node.status = "online"
  THEN CreateAndNotify(db, "node_down", "critical", node.id, NULL, NULL)
  ELSE db

(* check_node(node): node is the ORM object of the caller's session, db    *)
(* the store that check_node's own session commits to.  conn is the result *)
(* of test_connection, st the status get_node_status reports.  The result  *)
(* holds the store, the status left on the node object and the Proxmox     *)
(* calls made.  The rule evaluations appear twice in the source, before    *)
(* and after the commit of the metrics.                                    *)
check_node(db, node, conn, st, cpu, perm, t) ==
  IF node.maintenance_mode
  THEN [db |-> db, status |-> node.status, calls |-> {}, conn |-> "none"]
  ELSE IF ~conn
  THEN [db |-> NodeOffline(Log(db, "poll", "node"), node),
        status |-> "offline",
        calls |-> {"test_connection"}, conn |-> "fail"]
  ELSE LET d0 == Log(db, "poll", "node")
           d1 == IF st = "online"
                 THEN EvaluateNodeMetrics(Log(d0, "stage", "metric"),
                                          perm, t, node.id, cpu)
                 ELSE d0
           d2 == Log(d1, "commit", "metric")
           d3 == IF st = "online"
                 THEN EvaluateNodeMetrics(d2, perm, t, node.id, cpu)
                 ELSE d2
       IN [db |-> Log(d3, "node_update", st),
           status |-> st,
           calls |-> {"test_connection", "get_node_status"}, conn |-> "ok"]

(* ---------------------------------------------------- scheduler.sync_vms *)
VmIds == {100}

(* existing_vms: the primary keys of the node's rows, by vmid.             *)
ExistingVm(rows, n, vmid) ==
  {i \in 1..Len(rows) : rows[i].node_id = n /\ rows[i].vmid = vmid}

(* The loop body inserting a row for every entry of the list.              *)
SyncOneVm_AlwaysInsert(st, n, vm_data, perm, t) ==
  [st EXCEPT !.db = Log(@, "stage", "vm_insert"),
             !.vms = Append(@, [node_id |-> n, vmid |-> vm_data.vmid])]

(* The columns sync_vms assigns from an entry of the list, for the entries *)
(* that carry a status: `vm.status = vm_data.get("status", "unknown")` and *)
(* `vm.last_check = datetime.utcnow()`.                                    *)
PolledColumns(vm_data, t) ==
  IF "status" \in DOMAIN vm_data
  THEN [status |-> vm_data.status, last_check |-> t]
  ELSE <<>>

(* The loop body stamping every stored row of the node at each entry.      *)
SyncOneVm_TouchNode(st, n, vm_data, perm, t) ==
  LET found == ExistingVm(st.existing, n, vm_data.vmid)
      rows == IF found = {}
              THEN Append(st.vms, PolledColumns(vm_data, t)
                                  @@ [node_id |-> n, vmid |-> vm_data.vmid])
              ELSE st.vms
  IN [st EXCEPT !.db = Log(@, "stage",
                           IF found = {} THEN "vm_insert" ELSE "vm_update"),
                !.vms = [i \in 1..Len(rows) |->
                           IF rows[i].node_id = n
                           THEN [last_check |-> t] @@ rows[i] ELSE rows[i]]]

(* One iteration of `for vm_data in vms_data`: update or insert the row,   *)
(* then evaluate the cpu and memory rules with vm_id = vm.id, which is     *)
(* None for a row that is not flushed yet.                                 *)
SyncOneVm(st, n, vm_data, perm, t) ==
  LET found == ExistingVm(st.existing, n, vm_data.vmid)
      vm_id == IF found = {} THEN NULL ELSE CHOOSE i \in found : TRUE
      rows == IF found = {}
              THEN Append(st.vms, PolledColumns(vm_data, t)
                                  @@ [node_id |-> n, vmid |-> vm_data.vmid])
              ELSE [st.vms EXCEPT ![vm_id] = PolledColumns(vm_data, t) @@ @]
      d0 == Log(st.db, "stage",
                IF found = {} THEN "vm_insert" ELSE "vm_update")
      d1 == evaluate_alert_rules(d0, perm, t, "cpu", vm_data.cpu,
                                 n, vm_id, NULL)
      d2 == evaluate_alert_rules(d1, perm, t, "memory", LowValue,
                                 n, vm_id, NULL)
  IN [st EXCEPT !.db = d2, !.vms = rows]

RECURSIVE SyncLoop(_, _, _, _, _)
SyncLoop(st, n, vms_data, perm, t) ==
  IF vms_data = <<>>
  THEN st
  ELSE With(SyncOneVm(st, n, Head(vms_data), perm, t),
            LAMBDA s : SyncLoop(s, n, Tail(vms_data), perm, t))

(* sync_vms(node): vms_data is what client.get_vms() returned, the empty   *)
(* list when the call failed.  It is called for every node, whatever its   *)
(* maintenance_mode.                                                       *)
sync_vms(db, rows, n, vms_data, perm, t) ==
  LET st == SyncLoop([db |-> Log(db, "poll", "vms"), vms |-> rows,
                      existing |-> rows],
                     n, vms_data, perm, t)
  IN [st |-> [st EXCEPT !.db = Log(Log(@, "commit", "vm"),
                                   "vms_update", "vms")],
      calls |-> {"get_vms"}]

(* The lists get_vms may return.                                           *)
VmLists ==
  {<<>>} \cup {<<[vmid |-> v, cpu |-> c]>> : v \in VmIds, c \in MetricValues}

(* What one poll of a node observes: test_connection fails, or it succeeds *)
(* and get_node_status reports an error, or online with a cpu figure.      *)
PollOutcomes ==
  {[conn |-> FALSE, st |-> "error", cpu |-> LowValue],
   [conn |-> TRUE, st |-> "error", cpu |-> LowValue]}
  \cup {[conn |-> TRUE, st |-> "online", cpu |-> c] : c \in MetricValues}

(* The node object a caller hands to check_node and sync_vms.              *)
NodeObject(n) ==
  [id |-> n, status |-> nodes[n].status,
   maintenance_mode |-> nodes[n].maintenance_mode]

(* check_node(node) followed by sync_vms(node), as every caller runs them. *)
CheckAndSync(n, o, vms_data, perm) ==
  LET Sync(c) ==
        LET After(v) ==
              [db |-> v.st.db, vms |-> v.st.vms, status |-> c.status,
               calls |-> c.calls \cup v.calls, conn |-> c.conn]
        IN With(sync_vms(c.db, vms, n, vms_data, perm, now), After)
  IN With(check_node(Store, NodeObject(n), o.conn, o.st, o.cpu, perm, now),
          Sync)

(* run_node_checks: one iteration of the loop over the active nodes.  The  *)
(* node object belongs to the job's session, which is closed without a     *)
(* commit: the status check_node assigns is never written to the table.    *)
NodeTick(n, o, vms_data, perm) ==
  \E r \in {CheckAndSync(n, o, vms_data, perm)} :
     /\ nodes[n].is_active
     /\ Commit(r.db)
     /\ vms' = r.vms
     /\ calls' = r.calls
     /\ lastOp' = [op |-> "node_tick", by |-> "periodic", id |-> n,
                   res |-> r.conn]
     /\ UNCHANGED <<runtime, now, nodes, services, health, task, lastEval>>

(* routers/nodes.py sync_node: the node object belongs to the request's    *)
(* session, and the handler commits it after the two calls.                *)
SyncNode(n, o, vms_data, perm) ==
  \E r \in {CheckAndSync(n, o, vms_data, perm)} :
     /\ Commit(r.db)
     /\ vms' = r.vms
     /\ calls' = r.calls
     /\ nodes' = [nodes EXCEPT ![n].status = r.status]
     /\ lastOp' = [op |-> "sync_node", by |-> "manual", id |-> n,
                   res |-> r.conn]
     /\ UNCHANGED <<runtime, now, services, health, task, lastEval>>

(* routers/nodes.py toggle_maintenance_mode                                *)
ToggleNodeMaintenance(n, m) ==
  /\ nodes' = [nodes EXCEPT ![n].maintenance_mode = m]
  /\ lastOp' = [op |-> "node_maintenance", by |-> "api", id |-> n,
                res |-> IF m THEN "on" ELSE "off"]
  /\ UNCHANGED <<runtime, now, services, rules, alerts, attempts, trace, health, task,
                 lastEval, nodeSide>>

(* ------------------------------------------------------------------- Init *)
(* No job is running and no row has been deleted.                          *)
IdleJob == [kind |-> "none", queue |-> <<>>, pos |-> 1, done |-> {},
            raised |-> FALSE]

(* The worker before it picks up a sync task.                              *)
IdleVmTask == [pc |-> "idle", node |-> NULL, vms_data |-> <<>>,
               existing |-> <<>>]

(* No broadcast is running.  start and stayed record the connections      *)
(* registered when the call began and those never removed since.           *)
IdleBcast == [pc |-> "idle", idx |-> 0, disconnected |-> <<>>,
              sent |-> <<>>, start |-> {}, stayed |-> {}]

InitServer ==
  /\ registry = <<>>
  /\ opened = 0
  /\ bcast = IdleBcast
  /\ deleted = {}
  /\ job = IdleJob
  /\ vmtask = IdleVmTask
  /\ outage = {}

(* No call has been made yet.                                              *)
NoProbe == [called |-> FALSE, seen |-> "none"]

(* A job that is not inside a remote call, at its first target.            *)
Ready == [pos |-> 1, wait |-> "none", call |-> "none"]

InitIdle ==
  /\ cmp = [called |-> FALSE]
  /\ probe = NoProbe
  /\ sched = [j \in {"node_checks", "service_checks"} |-> Ready]

(* The accounts of the tests: active users without two-factor login.       *)
UserNames == {"testuser", "admin"}

(* No token.                                                               *)
NoToken == [type |-> "none", sub |-> "none"]

NoRequest == [op |-> "none"]

NoValidation == [called |-> FALSE]

InitAccounts ==
  /\ users = [u \in UserNames |-> [is_active |-> TRUE, totp_enabled |-> FALSE]]
  /\ issued = {}
  /\ http = NoRequest
  /\ checked = NoValidation

(* The defaults of config.py: the cleanup is enabled, no metric stored.    *)
InitRuntime ==
  /\ InitServer
  /\ InitIdle
  /\ InitAccounts
  /\ metrics = <<>>
  /\ cleanup_enabled = TRUE

DefaultRules ==
  [r \in RuleIds |->
     [is_active |-> TRUE, metric_type |-> "cpu", operator |-> ">",
      threshold |-> 90 * Scale, severity |-> IF r = 1 THEN "critical" ELSE "warning",
      node_id |-> NULL, vm_id |-> NULL, service_id |-> NULL,
      cooldown_minutes |-> 5, last_triggered |-> NULL]]

(* The tables after the setup: the default rules, nothing recorded yet.    *)
InitTables ==
  /\ now = 0
  /\ nodes = [n \in Nodes |-> [is_active |-> TRUE, maintenance_mode |-> FALSE,
                               status |-> "unknown"]]
  /\ services = [s \in Services |-> NewService]
  /\ rules = DefaultRules
  /\ alerts = <<>>
  /\ attempts = <<>>
  /\ health = [s \in Services |-> "none"]
  /\ task = IdleTask
  /\ lastOp = [op |-> "init", by |-> "init", id |-> NULL, res |-> "init"]
  /\ lastEval = NoEval
  /\ vms = <<>>
  /\ calls = {}
  /\ trace = <<>>

Init ==
  /\ InitTables
  /\ InitRuntime

(* The server with either value of METRICS_CLEANUP_ENABLED.                *)
InitRetention ==
  /\ InitTables
  /\ InitServer
  /\ InitIdle
  /\ InitAccounts
  /\ metrics = <<>>
  /\ cleanup_enabled \in BOOLEAN

(* The server with any flags on the user rows.                             *)
InitAuth ==
  /\ InitTables
  /\ InitServer
  /\ InitIdle
  /\ metrics = <<>>
  /\ cleanup_enabled = TRUE
  /\ users \in [UserNames -> [is_active : BOOLEAN, totp_enabled : BOOLEAN]]
  /\ issued = {}
  /\ http = NoRequest
  /\ checked = NoValidation

(* Service checks only: the periodic job and the manual check on one loop. *)
NextService ==
  \/ \E s \in Services, r \in Results : PeriodicServiceCheck(s, r)
  \/ \E s \in Services, r \in Results : ManualServiceCheck(s, r)
  \/ \E s \in Services, m \in BOOLEAN : ToggleServiceMaintenance(s, m)

SpecService == Init /\ [][NextService]_vars

(* The service checks with the alerts API and the clock beside them.       *)
NextResolve ==
  \/ \E s \in Services, r \in Results : PeriodicServiceCheck(s, r)
  \/ \E a \in 1..MaxAlerts : ResolveAlert(a)
  \/ \E alert_ids \in SUBSET (1..MaxAlerts) : BulkResolve(alert_ids)
  \/ (now < MaxClock /\ AdvanceTime)

SpecResolve == Init /\ [][NextResolve]_vars

(* The scheduler process together with the Celery worker: the last service *)
(* is the one the bulk-create task is about to insert.                     *)
InitRace ==
  /\ now = 0
  /\ nodes = [n \in Nodes |-> [is_active |-> TRUE, maintenance_mode |-> FALSE,
                               status |-> "unknown"]]
  /\ services = [s \in Services |->
                   [NewService EXCEPT !.exists = (s # NumServices)]]
  /\ rules = DefaultRules
  /\ alerts = <<>>
  /\ attempts = <<>>
  /\ health = [s \in Services |-> "none"]
  /\ task = IdleTask
  /\ lastOp = [op |-> "init", by |-> "init", id |-> NULL, res |-> "init"]
  /\ lastEval = NoEval
  /\ vms = <<>>
  /\ calls = {}
  /\ trace = <<>>
  /\ InitRuntime

NextRace ==
  \/ \E s \in Services, r \in Results : PeriodicServiceCheck(s, r)
  \/ \E s \in Services, r \in Results : ManualServiceCheck(s, r)
  \/ \E s \in Services : TaskCreateService(s)
  \/ \E r \in Results : TaskProbe(r)
  \/ TaskQuery
  \/ TaskWrite

SpecRace == InitRace /\ [][NextRace]_vars

(* The rule engine called for every kind of subject against rules of every *)
(* scope.  A subject is <<node_id, vm_id, service_id>>.                    *)
RuleScopes ==
  { <<NULL, NULL, NULL>>, <<1, NULL, NULL>>, <<2, NULL, NULL>>,
    <<1, 1, NULL>>, <<NULL, NULL, 1>> }

EvalSubjects == RuleScopes

(* The node rows the scopes refer to: create_alert_rule rejects a scope id *)
(* without a row.                                                          *)
ScopeNodes == {sc[1] : sc \in RuleScopes} \ {NULL}

InitRules ==
  /\ now = 0
  /\ nodes = [n \in ScopeNodes |->
                [is_active |-> TRUE, maintenance_mode |-> FALSE,
                 status |-> "unknown"]]
  /\ services = [s \in Services |-> NewService]
  /\ \E sc \in [RuleIds -> RuleScopes], act \in BOOLEAN, mt \in MetricTypes :
       rules = [r \in RuleIds |->
                  [DefaultRules[r] EXCEPT
                     !.node_id = sc[r][1],
                     !.vm_id = sc[r][2],
                     !.service_id = sc[r][3],
                     !.is_active = IF r = 1 THEN TRUE ELSE act,
                     !.metric_type = IF r = 1 THEN "cpu" ELSE mt]]
  /\ alerts = <<>>
  /\ attempts = <<>>
  /\ health = [s \in Services |-> "none"]
  /\ task = IdleTask
  /\ lastOp = [op |-> "init", by |-> "init", id |-> NULL, res |-> "init"]
  /\ lastEval = NoEval
  /\ vms = <<[node_id |-> 1, vmid |-> 100]>>
  /\ calls = {}
  /\ trace = <<>>
  /\ InitRuntime

NextRules ==
  \/ \E perm \in Orders(RuleIds), mt \in MetricTypes, v \in MetricValues,
        sb \in EvalSubjects :
       Evaluate(perm, mt, v, sb[1], sb[2], sb[3])
  \/ \E a \in 1..MaxAlerts : ResolveAlert(a)

SpecRules == InitRules /\ [][NextRules]_vars

(* One subject evaluated over time against the default rules: cooldown.    *)
NextCooldown ==
  \/ \E perm \in Orders(RuleIds), v \in MetricValues, n \in Nodes :
       Evaluate(perm, "cpu", v, n, NULL, NULL)
  \/ \E a \in 1..MaxAlerts : ResolveAlert(a)
  \/ AdvanceTime

SpecCooldown == Init /\ [][NextCooldown]_vars

(* The node job, the manual node sync and the maintenance switch.          *)
NextNode ==
  \/ \E n \in Nodes, o \in PollOutcomes, vl \in VmLists,
        perm \in Orders(RuleIds) :
       NodeTick(n, o, vl, perm)
  \/ \E n \in Nodes, o \in PollOutcomes, vl \in VmLists,
        perm \in Orders(RuleIds) :
       SyncNode(n, o, vl, perm)
  \/ \E n \in Nodes, m \in BOOLEAN : ToggleNodeMaintenance(n, m)

SpecNode == Init /\ [][NextNode]_vars

(* ------------------------------------------------ scheduler job loops *)
(* The node rows of the deployment the job loops run over.                 *)
JobNodes == 1..NumJobNodes

RowsOfNode(n) == {i \in 1..Len(vms) : vms[i].node_id = n}

(* routers/nodes.py delete_node: db.delete(node); db.commit().  The rows   *)
(* of the node's VMs go with it; the model deletes nodes without VM rows.  *)
(* The handler runs on the event loop of the job: it gets its turn while   *)
(* check_node or sync_vms of some node awaits, not between the job's query *)
(* and the first iteration.                                                *)
DeleteNode(n) ==
  /\ n \in DOMAIN nodes
  /\ n \notin deleted
  /\ job.kind = "nodes" => job.pos > 1
  /\ RowsOfNode(n) = {}
  /\ deleted' = deleted \cup {n}
  /\ lastOp' = [op |-> "delete_node", by |-> "api", id |-> n, res |-> "ok"]
  /\ UNCHANGED <<others, now, nodes, services, rules, alerts, attempts, trace, health, task,
                 lastEval, nodeSide, job, outage, vmtask, live>>

(* run_node_checks up to the loop: the query for the active nodes.         *)
StartNodeJob(queue) ==
  /\ job.kind = "none"
  /\ queue \in Orders({n \in DOMAIN nodes \ deleted : nodes[n].is_active})
  /\ job' = [kind |-> "nodes", queue |-> queue, pos |-> 1, done |-> {},
             raised |-> FALSE]
  /\ lastOp' = [op |-> "start_job", by |-> "periodic", id |-> NULL,
                res |-> "nodes"]
  /\ UNCHANGED <<others, now, nodes, services, rules, alerts, attempts, trace, health, task,
                 lastEval, nodeSide, deleted, outage, vmtask, live>>

(* run_node_checks, one iteration: db.refresh(node) raises when the row is *)
(* gone, and nothing in the loop catches it; else check_node and sync_vms  *)
(* run on the refreshed object.                                            *)
NodeJobStep(o, vms_data, perm) ==
  /\ job.kind = "nodes"
  /\ ~job.raised
  /\ job.pos <= Len(job.queue)
  /\ LET n == job.queue[job.pos]
     IN IF n \in deleted
        THEN /\ job' = [job EXCEPT !.raised = TRUE]
             /\ lastOp' = [op |-> "node_job", by |-> "periodic", id |-> n,
                           res |-> "raised"]
             /\ UNCHANGED <<others, alerts, rules, attempts, trace, nodeSide>>
        ELSE \E r \in {CheckAndSync(n, o, vms_data, perm)} :
                /\ Commit(r.db)
                /\ vms' = r.vms
                /\ calls' = r.calls
                /\ job' = [job EXCEPT !.pos = @ + 1, !.done = @ \cup {n}]
                /\ lastOp' = [op |-> "node_job", by |-> "periodic", id |-> n,
                              res |-> r.conn]
  /\ UNCHANGED <<others, now, nodes, services, health, task, lastEval, deleted,
                 outage, vmtask, live>>

(* run_service_checks up to the loop: the query for the services to check. *)
StartServiceJob(queue) ==
  /\ job.kind = "none"
  /\ queue \in Orders({s \in Services : /\ services[s].exists
                                        /\ services[s].is_active
                                        /\ ~services[s].maintenance_mode})
  /\ job' = [kind |-> "services", queue |-> queue, pos |-> 1, done |-> {},
             raised |-> FALSE]
  /\ lastOp' = [op |-> "start_job", by |-> "periodic", id |-> NULL,
                res |-> "services"]
  /\ UNCHANGED <<others, now, nodes, services, rules, alerts, attempts, trace, health, task,
                 lastEval, nodeSide, deleted, outage, vmtask, live>>

(* run_service_checks, one iteration.  check_service wraps its whole body  *)
(* in try/except: when the probe or the store raises before the first      *)
(* commit the session is closed with nothing written, and the call returns. *)
ServiceJobStep(result, raises) ==
  /\ job.kind = "services"
  /\ job.pos <= Len(job.queue)
  /\ LET s == job.queue[job.pos]
     IN /\ IF raises
           THEN UNCHANGED <<others, alerts, rules, attempts, trace, health>>
           ELSE /\ Commit(CheckServiceBody(Store, s, result, now))
                /\ health' = [health EXCEPT ![s] = result]
        /\ job' = [job EXCEPT !.pos = @ + 1, !.done = @ \cup {s}]
        /\ lastOp' = [op |-> "service_job", by |-> "periodic", id |-> s,
                      res |-> IF raises THEN "caught" ELSE result]
  /\ UNCHANGED <<others, now, nodes, services, task, lastEval, nodeSide, deleted, outage, vmtask, live>>

(* The job function returns, or the exception leaves it: finally db.close() *)
FinishJob ==
  /\ job.kind # "none"
  /\ job.raised \/ job.pos > Len(job.queue)
  /\ job' = IdleJob
  /\ lastOp' = [op |-> "finish_job", by |-> "periodic", id |-> NULL,
                res |-> IF job.raised THEN "raised" ELSE job.kind]
  /\ UNCHANGED <<others, now, nodes, services, rules, alerts, attempts, trace, health, task,
                 lastEval, nodeSide, deleted, outage, vmtask, live>>

InitJob ==
  /\ now = 0
  /\ nodes = [n \in JobNodes |->
                [is_active |-> TRUE, maintenance_mode |-> FALSE,
                 status |-> "online"]]
  /\ services = [s \in Services |-> NewService]
  /\ rules = DefaultRules
  /\ alerts = <<>>
  /\ attempts = <<>>
  /\ health = [s \in Services |-> "none"]
  /\ task = IdleTask
  /\ lastOp = [op |-> "init", by |-> "init", id |-> NULL, res |-> "init"]
  /\ lastEval = NoEval
  /\ vms = <<>>
  /\ calls = {}
  /\ trace = <<>>
  /\ InitRuntime

(* The two periodic jobs and the API call that deletes a node.             *)
NextJob ==
  \/ \E q \in Orders(JobNodes) \cup Orders({}) \cup
              {<<n>> : n \in JobNodes} : StartNodeJob(q)
  \/ \E o \in {x \in PollOutcomes : x.cpu = LowValue},
        perm \in Orders(RuleIds) :
       NodeJobStep(o, <<>>, perm)
  \/ \E q \in {<<s>> : s \in Services} \cup {<<1, 2>>} : StartServiceJob(q)
  \/ \E r \in Results, raises \in BOOLEAN : ServiceJobStep(r, raises)
  \/ FinishJob
  \/ \E n \in JobNodes : DeleteNode(n)

SpecJob == InitJob /\ [][NextJob]_vars

(* ------------------------------------------------- delivery failures *)
(* The sets of endpoints that are out of order together.                   *)
Outages == {{}, {"email"}, {"wh_all"}, {"ch_all"}, Receivers}

(* An SMTP server, a webhook URL or a chat webhook starts or stops to      *)
(* answer with an error or a timeout.                                      *)
SetOutage(S) ==
  /\ S # outage
  /\ outage' = S
  /\ lastOp' = [op |-> "outage", by |-> "environment", id |-> NULL,
                res |-> IF S = {} THEN "off" ELSE "on"]
  /\ UNCHANGED <<others, now, nodes, services, rules, alerts, attempts, trace, health, task,
                 lastEval, nodeSide, deleted, job, vmtask,
                 live>>

(* Service checks while receivers fail.                                    *)
NextNotify ==
  \/ \E s \in Services, r \in Results : PeriodicServiceCheck(s, r)
  \/ \E s \in Services, r \in Results : ManualServiceCheck(s, r)
  \/ \E S \in Outages : SetOutage(S)

SpecNotify == Init /\ [][NextNotify]_vars

(* The node job and the service job side by side, one service.            *)
NextOrder ==
  \/ \E n \in Nodes, o \in PollOutcomes, vl \in VmLists,
        perm \in Orders(RuleIds) :
       NodeTick(n, o, vl, perm)
  \/ \E r \in Results : PeriodicServiceCheck(1, r)
  \/ \E a \in 1..MaxAlerts : ResolveAlert(a)

SpecOrder == Init /\ [][NextOrder]_vars

(* ------------------------------------------- sync_vms in two processes *)
SyncVmIds == {100, 101}

(* The polls of a quiet node: its figures trigger no rule.                 *)
QuietOutcomes == {o \in PollOutcomes : o.cpu = LowValue}

QuietVm(v) == [vmid |-> v, cpu |-> LowValue]

QuietLists ==
  {<<>>, <<QuietVm(100), QuietVm(101)>>} \cup {<<QuietVm(v)>> : v \in SyncVmIds}

(* tasks.py sync_vms_task in the worker process, sync_vms up to the loop:  *)
(* client.get_vms() and the query that fills existing_vms.                 *)
VmTaskStart(n, vms_data) ==
  /\ vmtask.pc = "idle"
  /\ n \in DOMAIN nodes
  /\ vmtask' = [pc |-> "loaded", node |-> n, vms_data |-> vms_data,
                existing |-> vms]
  /\ lastOp' = [op |-> "task_sync_read", by |-> "task", id |-> n,
                res |-> "ok"]
  /\ UNCHANGED <<others, now, nodes, services, rules, alerts, attempts, trace, health,
                 task, lastEval, nodeSide, deleted, job, outage, live>>

(* sync_vms in the worker, the loop and its commit: rows are inserted for  *)
(* the vmids that existing_vms did not hold when it was read.              *)
VmTaskWrite(perm) ==
  /\ vmtask.pc = "loaded"
  /\ \E st \in {SyncLoop([db |-> Log(Store, "poll", "vms"), vms |-> vms,
                            existing |-> vmtask.existing],
                           vmtask.node, vmtask.vms_data, perm, now)} :
        /\ Commit(Log(Log(st.db, "commit", "vm"), "vms_update", "vms"))
        /\ vms' = st.vms
  /\ calls' = {"get_vms"}
  /\ vmtask' = IdleVmTask
  /\ lastOp' = [op |-> "task_sync", by |-> "task", id |-> vmtask.node,
                res |-> "ok"]
  /\ UNCHANGED <<others, now, nodes, services, health, task, lastEval, deleted, job,
                 outage, live>>

(* Polls of a quiet node by the node job and by the sync_node handler.     *)
NextUpsert ==
  \/ \E n \in Nodes, o \in QuietOutcomes, vl \in QuietLists,
        perm \in Orders(RuleIds) :
       NodeTick(n, o, vl, perm)
  \/ \E n \in Nodes, o \in QuietOutcomes, vl \in QuietLists,
        perm \in Orders(RuleIds) :
       SyncNode(n, o, vl, perm)

SpecUpsert == Init /\ [][NextUpsert]_vars

(* The same polls with the worker process syncing beside them.             *)
NextVmRace ==
  \/ \E n \in Nodes, o \in QuietOutcomes, vl \in QuietLists,
        perm \in Orders(RuleIds) :
       NodeTick(n, o, vl, perm)
  \/ \E n \in Nodes, vl \in QuietLists : VmTaskStart(n, vl)
  \/ \E perm \in Orders(RuleIds) : VmTaskWrite(perm)

SpecVmRace == Init /\ [][NextVmRace]_vars

(* ------------------------------------------- sync_vms over several nodes *)
(* An entry of get_vms for a quiet VM that is running.                     *)
RunningVm(v) == [vmid |-> v, cpu |-> LowValue, status |-> "running"]

(* The lists get_vms returns for a quiet node, each entry with its status; *)
(* the empty list is also what a failed call returns.                      *)
StatusLists ==
  {<<>>, <<RunningVm(100), RunningVm(101)>>}
  \cup {<<RunningVm(v)>> : v \in SyncVmIds}

(* A poll that finds the node online and quiet.                            *)
OnlineOutcomes == {o \in QuietOutcomes : o.conn /\ o.st = "online"}

(* The node job polling the nodes of the deployment as time passes.        *)
NextFrame ==
  \/ \E n \in JobNodes, o \in OnlineOutcomes, vl \in StatusLists,
        perm \in Orders(RuleIds) :
       NodeTick(n, o, vl, perm)
  \/ (now < MaxClock /\ AdvanceTime)

SpecFrame == InitJob /\ [][NextFrame]_vars

(* ------------------------------------------- main.ConnectionManager *)
(* list.remove(x): the first occurrence goes, ValueError when absent.      *)
Remove(list, x) ==
  LET hits == {i \in 1..Len(list) : list[i] = x}
  IN IF hits = {}
     THEN list
     ELSE LET first == CHOOSE i \in hits : \A k \in hits : i <= k
          IN SubSeq(list, 1, first - 1) \o SubSeq(list, first + 1, Len(list))

RECURSIVE RemoveAll(_, _)
RemoveAll(list, gone) ==
  IF gone = <<>> THEN list ELSE RemoveAll(Remove(list, Head(gone)), Tail(gone))

Range(list) == {list[i] : i \in 1..Len(list)}

(* websocket_endpoint -> manager.connect: accept and append a new socket.  *)
Connect ==
  /\ opened < NumConns
  /\ opened' = opened + 1
  /\ registry' = Append(registry, opened + 1)
  /\ lastOp' = [op |-> "connect", by |-> "client", id |-> opened + 1,
                res |-> "ok"]
  /\ UNCHANGED <<others, now, nodes, services, rules, alerts, attempts, trace, health,
                 task, lastEval, nodeSide, deleted, job, vmtask, outage, bcast>>

(* websocket_endpoint: receive_text raised, manager.disconnect(websocket). *)
Disconnect(c) ==
  /\ c \in Range(registry)
  /\ registry' = Remove(registry, c)
  /\ bcast' = [bcast EXCEPT !.stayed = @ \ {c}]
  /\ lastOp' = [op |-> "disconnect", by |-> "client", id |-> c, res |-> "ok"]
  /\ UNCHANGED <<others, now, nodes, services, rules, alerts, attempts, trace, health,
                 task, lastEval, nodeSide, deleted, job, vmtask, outage, opened>>

(* broadcast up to the loop: return at once when nobody is connected.      *)
BroadcastStart ==
  /\ bcast.pc = "idle"
  /\ registry # <<>>
  /\ bcast' = [pc |-> "iter", idx |-> 0, disconnected |-> <<>>,
               sent |-> <<>>, start |-> Range(registry),
               stayed |-> Range(registry)]
  /\ lastOp' = [op |-> "broadcast_start", by |-> "server", id |-> NULL,
                res |-> "ok"]
  /\ UNCHANGED <<others, now, nodes, services, rules, alerts, attempts, trace, health,
                 task, lastEval, nodeSide, deleted, job, vmtask, outage,
                 registry, opened>>

(* One iteration of `for connection in self.active_connections`: the list  *)
(* iterator reads the live list at its index, and the call awaits          *)
(* send_json, which succeeds or raises.                                    *)
BroadcastSend(ok) ==
  /\ bcast.pc = "iter"
  /\ bcast.idx < Len(registry)
  /\ LET c == registry[bcast.idx + 1]
     IN /\ bcast' = [bcast EXCEPT
                       !.idx = @ + 1,
                       !.sent = Append(@, c),
                       !.disconnected = IF ok THEN @ ELSE Append(@, c)]
        /\ lastOp' = [op |-> "broadcast_send", by |-> "server", id |-> c,
                      res |-> IF ok THEN "ok" ELSE "failed"]
  /\ UNCHANGED <<others, now, nodes, services, rules, alerts, attempts, trace, health,
                 task, lastEval, nodeSide, deleted, job, vmtask, outage,
                 registry, opened>>

(* The iterator is exhausted: remove the connections whose send raised.    *)
BroadcastPrune ==
  /\ bcast.pc = "iter"
  /\ bcast.idx >= Len(registry)
  /\ registry' = RemoveAll(registry, bcast.disconnected)
  /\ bcast' = IdleBcast
  /\ lastOp' = [op |-> "broadcast_done", by |-> "server", id |-> NULL,
                res |-> "ok"]
  /\ UNCHANGED <<others, now, nodes, services, rules, alerts, attempts, trace, health,
                 task, lastEval, nodeSide, deleted, job, vmtask, outage,
                 opened>>

(* Subscribers come and go while the server broadcasts.                    *)
NextLive ==
  \/ Connect
  \/ \E c \in 1..NumConns : Disconnect(c)
  \/ BroadcastStart
  \/ \E ok \in BOOLEAN : BroadcastSend(ok)
  \/ BroadcastPrune

SpecLive == Init /\ [][NextLive]_vars

(* ------------------------------------- scheduler.cleanup_old_metrics *)
(* What the metric history and its retention job leave alone.              *)
tables == <<nodes, services, rules, alerts, attempts, trace, health, task,
            lastEval, nodeSide, deleted, job, vmtask, outage, live>>

(* db.add(metric) ... db.commit() of a poll: a row with recorded_at = now. *)
RecordMetric ==
  /\ Len(metrics) < MaxMetrics
  /\ metrics' = Append(metrics, now)
  /\ lastOp' = [op |-> "record_metric", by |-> "periodic", id |-> NULL,
                res |-> "ok"]
  /\ UNCHANGED <<tables, idle, accounts, now, cleanup_enabled>>

(* The clock of the metric history, in days.                               *)
NextDay ==
  /\ now < MaxTime
  /\ now' = now + 1
  /\ lastOp' = [op |-> "clock", by |-> "clock", id |-> NULL, res |-> "tick"]
  /\ UNCHANGED <<tables, idle, accounts, metrics, cleanup_enabled>>

(* The bulk DELETE with `<=` in place of `<`.                              *)
DeleteOld_Inclusive(rows, cutoff_date) ==
  LET Kept(recorded_at) == ~(recorded_at <= cutoff_date)
  IN SelectSeq(rows, Kept)

(* db.query(Metric).filter(Metric.recorded_at < cutoff_date).delete()      *)
DeleteOld(rows, cutoff_date) ==
  LET Kept(recorded_at) == ~(recorded_at < cutoff_date)
  IN SelectSeq(rows, Kept)

(* cleanup_old_metrics: nothing when the flag is off; else one DELETE and  *)
(* its commit, or the rollback when either of them raised.  lastOp.id is   *)
(* deleted_count.                                                          *)
CleanupOldMetrics(raises) ==
  /\ IF ~cleanup_enabled
     THEN /\ ~raises
          /\ metrics' = metrics
          /\ lastOp' = [op |-> "cleanup", by |-> "periodic", id |-> NULL,
                        res |-> "disabled"]
     ELSE IF raises
     THEN /\ metrics' = metrics
          /\ lastOp' = [op |-> "cleanup", by |-> "periodic", id |-> NULL,
                        res |-> "rolled_back"]
     ELSE /\ metrics' = DeleteOld(metrics, now - RetentionDays)
          /\ lastOp' = [op |-> "cleanup", by |-> "periodic",
                        id |-> Len(metrics) - Len(metrics'), res |-> "ok"]
  /\ UNCHANGED <<tables, idle, accounts, now, cleanup_enabled>>

(* Polls store samples, days pass, the retention job runs.                 *)
NextRetention ==
  \/ RecordMetric
  \/ NextDay
  \/ \E raises \in BOOLEAN : CleanupOldMetrics(raises)

SpecRetention == InitRetention /\ [][NextRetention]_vars

(* ------------------------------------------ health_checks.HealthChecker *)
(* None where the other values are strings.                                *)
None == "None"

(* Python truthiness of an optional string: None and "" are falsy.         *)
Given(x) == x # None /\ x # ""

(* A result dictionary.                                                    *)
Result(status, error_message) ==
  [raised |-> FALSE, status |-> status, error_message |-> error_message]

(* An exception that leaves the call.                                      *)
Raised == [raised |-> TRUE, status |-> "none", error_message |-> None]

(* `response_time if response_time < timeout * 1000 else None` in the      *)
(* generic handlers of check_http and check_custom: the product is a       *)
(* TypeError when timeout is None.                                         *)
GenericHandler(timeout) ==
  IF timeout = NULL THEN Raised ELSE Result("down", "text")

(* check_http: seen is what the request met.                               *)
check_http(timeout, seen) ==
  CASE seen = "ok" -> Result("up", None)
    [] seen = "unexpected" -> Result("warning", "text")
    [] seen = "timeout" -> Result("down", "text")
    [] OTHER -> GenericHandler(timeout)

(* check_port: connect_ex returned 0, or an error code, or socket raised.  *)
check_port(timeout, seen) ==
  IF seen = "ok" THEN Result("up", None) ELSE Result("down", "text")

(* check_ping: `timeout + 1` raises inside the try when timeout is None.   *)
check_ping(timeout, seen) ==
  IF timeout = NULL
  THEN Result("down", "text")
  ELSE IF seen = "ok" THEN Result("up", None) ELSE Result("down", "text")

(* check_custom: the script when there is one, else the command.           *)
check_custom(timeout, seen) ==
  CASE seen = "ok" -> Result("up", None)
    [] seen = "unexpected" -> Result("down", "text")
    [] seen = "timeout" -> Result("down", "text")
    [] OTHER -> GenericHandler(timeout)

(* HealthChecker.check_service                                             *)
HealthCheck(type, port, timeout, custom_command, custom_script, seen) ==
  IF type = "custom"
  THEN IF ~Given(custom_command) /\ ~Given(custom_script)
       THEN Result("down", "text")
       ELSE check_custom(timeout, seen)
  ELSE IF type \in {"http", "https"}
  THEN check_http(timeout, seen)
  ELSE IF type = "ping"
  THEN check_ping(timeout, seen)
  ELSE IF type = "port"
  THEN IF port = NULL
       THEN Result("down", "text")
       ELSE check_port(timeout, seen)
  ELSE Result("down", "text")

(* Service.type is any string of 1 to 20 characters.                       *)
ServiceTypes == {"http", "https", "ping", "port", "custom", "ftp"}

(* Service.port and Service.timeout are nullable integer columns that      *)
(* update_service assigns from the request as they come.                   *)
Ports == {NULL, 80}
Timeouts == {NULL, 5}
Commands == {None, "", "true"}

(* What the probe meets: success, a status or exit code other than the     *)
(* expected one, a timeout of the library, any other exception.  A call    *)
(* without a timeout cannot time out.                                      *)
Seen(timeout) ==
  {"ok", "unexpected", "error"} \cup
  (IF timeout = NULL THEN {} ELSE {"timeout"})

(* One call of HealthChecker.check_service.                                *)
Probe(type, port, timeout, custom_command, custom_script, seen) ==
  /\ seen \in Seen(timeout)
  /\ probe' = [called |-> TRUE, type |-> type, port |-> port,
               timeout |-> timeout, custom_command |-> custom_command,
               custom_script |-> custom_script, seen |-> seen,
               result |-> HealthCheck(type, port, timeout, custom_command,
                                      custom_script, seen)]
  /\ lastOp' = [op |-> "probe", by |-> "checker", id |-> NULL, res |-> seen]
  /\ UNCHANGED <<tables, accounts, now, metrics, cleanup_enabled, sched, cmp>>

NextProbe ==
  \E type \in ServiceTypes, port \in Ports, timeout \in Timeouts,
     custom_command \in Commands, custom_script \in Commands,
     seen \in {"ok", "unexpected", "error", "timeout"} :
    Probe(type, port, timeout, custom_command, custom_script, seen)

SpecProbe == Init /\ [][NextProbe]_vars

(* --------------------------------- the scheduler jobs on the event loop *)
(* AsyncIOScheduler runs both jobs as coroutines of the one event loop.    *)
Jobs == {"node_checks", "service_checks"}

(* The remote calls a job makes for a target.                              *)
RemoteCalls(j) ==
  IF j = "node_checks"
  THEN {"proxmox", "email", "webhook", "broadcast"}
  ELSE {"http", "port", "ping", "custom", "email", "webhook", "broadcast"}

(* The calls that are awaited: httpx requests and websocket sends.  The    *)
(* Proxmox client, the socket of check_port, subprocess.run of check_ping  *)
(* and check_custom and smtplib are called in place and keep the thread    *)
(* of the event loop until they return.                                    *)
Awaited(call) == call \in {"http", "webhook", "broadcast"}

(* The event loop thread is inside a call that does not yield.             *)
ThreadHeld == \E j \in Jobs : sched[j].wait = "blocked"

(* A job starts a remote call for its current target.                      *)
CallRemote(j, call) ==
  /\ ~ThreadHeld
  /\ sched[j].wait = "none"
  /\ sched[j].pos <= NumTargets
  /\ call \in RemoteCalls(j)
  /\ sched' = [sched EXCEPT ![j].wait = IF Awaited(call) THEN "awaiting"
                                        ELSE "blocked",
                            ![j].call = call]
  /\ lastOp' = [op |-> "call", by |-> j, id |-> sched[j].pos, res |-> call]
  /\ UNCHANGED <<tables, accounts, now, metrics, cleanup_enabled, probe, cmp>>

(* The remote end answers, or the timeout of the call expires; the job     *)
(* goes on to its next target.  An awaiting coroutine resumes only when    *)
(* the thread is free.                                                     *)
CallReturns(j) ==
  /\ sched[j].wait # "none"
  /\ sched[j].wait = "awaiting" => ~ThreadHeld
  /\ sched' = [sched EXCEPT ![j] = [pos |-> sched[j].pos + 1,
                                    wait |-> "none", call |-> "none"]]
  /\ lastOp' = [op |-> "return", by |-> j, id |-> sched[j].pos,
                res |-> sched[j].call]
  /\ UNCHANGED <<tables, accounts, now, metrics, cleanup_enabled, probe, cmp>>

(* The interval trigger fires again for a job that has finished.           *)
Trigger(j) ==
  /\ ~ThreadHeld
  /\ sched[j].pos > NumTargets
  /\ sched' = [sched EXCEPT ![j] = Ready]
  /\ lastOp' = [op |-> "trigger", by |-> j, id |-> NULL, res |-> "ok"]
  /\ UNCHANGED <<tables, accounts, now, metrics, cleanup_enabled, probe, cmp>>

NextLoop ==
  \/ \E j \in Jobs, call \in RemoteCalls("service_checks") : CallRemote(j, call)
  \/ \E j \in Jobs : CallReturns(j)
  \/ \E j \in Jobs : Trigger(j)

SpecLoop == Init /\ [][NextLoop]_vars

(* -------------------------------------------- alert_rules.evaluate_rule *)
(* AlertRule.operator is a free string column.                             *)
Operators == {">", "<", ">=", "<=", "==", "!=", "="}

Thresholds == {50 * Scale, 90 * Scale}

(* Values around the thresholds, in thousandths.                           *)
Offsets == {0 - 20, 0 - 10, 0 - 5, 0, 5, 9, 10, 20}
CompareValues == {t + d : t \in Thresholds, d \in Offsets}

(* One call evaluate_rule(rule, metric_value).                             *)
Compare(operator, threshold, metric_value) ==
  /\ cmp' = [called |-> TRUE, operator |-> operator, threshold |-> threshold,
             value |-> metric_value,
             result |-> evaluate_rule([operator |-> operator,
                                       threshold |-> threshold],
                                      metric_value)]
  /\ lastOp' = [op |-> "evaluate_rule", by |-> "engine", id |-> NULL,
                res |-> operator]
  /\ UNCHANGED <<tables, accounts, now, metrics, cleanup_enabled, probe, sched>>

NextCompare ==
  \E operator \in Operators, threshold \in Thresholds,
     metric_value \in CompareValues :
    Compare(operator, threshold, metric_value)

SpecCompare == Init /\ [][NextCompare]_vars

(* ------------------------------------------------ routers/auth.py, auth.py *)
(* What the account endpoints leave alone.                                 *)
serverState == <<tables, idle, now, metrics, cleanup_enabled>>

(* Every test user has the password "right".                               *)
Passwords == {"right", "wrong"}
LoginNames == UserNames \cup {"nonexistent"}

(* authenticate_user: the user row, or None for an unknown name or a       *)
(* password that does not verify.                                          *)
authenticate_user(username, password) ==
  IF username \in UserNames /\ password = "right" THEN username ELSE "none"

(* def create_access_token(data, expires_delta=None)                       *)
AccessTokenParams == {"data", "expires_delta"}

(* def create_refresh_token(data)                                          *)
RefreshTokenParams == {"data"}

(* A Python call by keyword: TypeError for a keyword the function lacks.   *)
CallOk(params, keywords) == keywords \subseteq params

(* login: 401 without a user or with two-factor login enabled; then the    *)
(* two tokens, each created by a call with data= and expires_delta=; an    *)
(* exception of the handler is answered with status 500.                   *)
LoginResponse(username, password) ==
  LET user == authenticate_user(username, password)
      no_tokens == [access_token |-> NoToken, refresh_token |-> NoToken,
                    token_type |-> "none"]
  IN IF user = "none" \/ users[user].totp_enabled
     THEN [status |-> 401] @@ no_tokens
     ELSE IF ~CallOk(AccessTokenParams, {"data", "expires_delta"})
     THEN [status |-> 500] @@ no_tokens
     ELSE IF ~CallOk(RefreshTokenParams, {"data", "expires_delta"})
     THEN [status |-> 500] @@ no_tokens
     ELSE [status |-> 200,
           access_token |-> [type |-> "access", sub |-> user],
           refresh_token |-> [type |-> "refresh", sub |-> user],
           token_type |-> "bearer"]

(* POST /api/auth/login                                                    *)
Login(username, password) ==
  LET r == LoginResponse(username, password)
  IN /\ http' = [op |-> "login", username |-> username,
                 password |-> password, token |-> NoToken,
                 status |-> r.status, access_token |-> r.access_token,
                 refresh_token |-> r.refresh_token,
                 token_type |-> r.token_type, user |-> "none"]
     /\ issued' = IF r.status = 200 THEN issued \cup {r.access_token}
                  ELSE issued
     /\ lastOp' = [op |-> "login", by |-> "api", id |-> NULL,
                   res |-> IF r.status = 200 THEN "ok" ELSE "rejected"]
     /\ UNCHANGED <<serverState, users, checked>>

(* The tokens a client may present: none, one the server issued, or one    *)
(* that does not decode.                                                   *)
PresentedTokens == {NoToken, [type |-> "garbage", sub |-> "none"]} \cup issued

(* GET /api/auth/me through get_current_active_user: 401 from the bearer   *)
(* scheme without a token, 401 when the token does not decode or names no  *)
(* user, 400 for an inactive user.                                         *)
ReadMe(token) ==
  /\ token \in PresentedTokens
  /\ LET known == token \in issued /\ token.sub \in UserNames
         status == IF ~known THEN 401
                   ELSE IF ~users[token.sub].is_active THEN 400 ELSE 200
     IN http' = [op |-> "me", username |-> "none", password |-> "none",
                 token |-> token, status |-> status, access_token |-> NoToken,
                 refresh_token |-> NoToken, token_type |-> "none",
                 user |-> IF status = 200 THEN token.sub ELSE "none"]
  /\ lastOp' = [op |-> "me", by |-> "api", id |-> NULL, res |-> token.type]
  /\ UNCHANGED <<serverState, users, issued, checked>>

NextAuth ==
  \/ \E username \in LoginNames, password \in Passwords :
       Login(username, password)
  \/ \E token \in PresentedTokens : ReadMe(token)

SpecAuth == InitAuth /\ [][NextAuth]_vars

(***************************************************************************)
(* password_policy.py: PasswordPolicy.validate and validate_password.      *)
(* A string is the sequence of its characters.                             *)
(***************************************************************************)
UpperLetters == <<"A", "B", "C", "D", "E", "F", "G", "H", "I", "J", "K", "L", "M", "N", "O", "P", "Q", "R", "S", "T", "U", "V", "W", "X", "Y", "Z">>
LowerLetters == <<"a", "b", "c", "d", "e", "f", "g", "h", "i", "j", "k", "l", "m", "n", "o", "p", "q", "r", "s", "t", "u", "v", "w", "x", "y", "z">>
Digits == {"0", "1", "2", "3", "4", "5", "6", "7", "8", "9"}

(* str.lower() of one character and of a string.                           *)
UpperSet == {UpperLetters[i] : i \in 1..26}
LowerSet == {LowerLetters[i] : i \in 1..26}
LowerTable == [c \in UpperSet |-> LowerLetters[CHOOSE i \in 1..26 : UpperLetters[i] = c]]
LowerChar(c) == IF c \in UpperSet THEN LowerTable[c] ELSE c
Lower(s) == [i \in 1..Len(s) |-> LowerChar(s[i])]

(* `needle in hay` of two strings.                                         *)
Contains(needle, hay) == \E i \in 0..(Len(hay) - Len(needle)) : \A j \in 1..Len(needle) : hay[i + j] = needle[j]

(* re.search(r'[A-Z]', s), re.search(r'[a-z]', s), re.search(r'\d', s).     *)
HasUpper(s) == \E i \in 1..Len(s) : s[i] \in UpperSet
HasLower(s) == \E i \in 1..Len(s) : s[i] \in LowerSet
HasDigit(s) == \E i \in 1..Len(s) : s[i] \in Digits

(* re.search(r'(.)\1{3,}', s): one character four times in a row.          *)
HasRepeat(s) == \E i \in 1..(Len(s) - 3) : s[i] = s[i + 1] /\ s[i] = s[i + 2] /\ s[i] = s[i + 3]

(* email.split('@')[0]: the characters before the first '@'.               *)
LocalPart(email) == IF \E i \in 1..Len(email) : email[i] = "@" THEN SubSeq(email, 1, (CHOOSE i \in 1..Len(email) : email[i] = "@" /\ \A j \in 1..(i - 1) : email[j] # "@") - 1) ELSE email

COMMON_PASSWORDS ==
  << <<"p", "a", "s", "s", "w", "o", "r", "d">>,
     <<"1", "2", "3", "4", "5", "6", "7", "8">>,
     <<"1", "2", "3", "4", "5", "6", "7", "8", "9">>,
     <<"1", "2", "3", "4", "5", "6", "7", "8", "9", "0">>,
     <<"q", "w", "e", "r", "t", "y">>,
     <<"a", "b", "c", "1", "2", "3">>,
     <<"m", "o", "n", "k", "e", "y">>,
     <<"1", "2", "3", "4", "5", "6", "7">>,
     <<"l", "e", "t", "m", "e", "i", "n">>,
     <<"t", "r", "u", "s", "t", "n", "o", "1">>,
     <<"d", "r", "a", "g", "o", "n">>,
     <<"b", "a", "s", "e", "b", "a", "l", "l">>,
     <<"i", "l", "o", "v", "e", "y", "o", "u">>,
     <<"m", "a", "s", "t", "e", "r">>,
     <<"s", "u", "n", "s", "h", "i", "n", "e">>,
     <<"a", "s", "h", "l", "e", "y">>,
     <<"b", "a", "i", "l", "e", "y">>,
     <<"p", "a", "s", "s", "w", "0", "r", "d">>,
     <<"s", "h", "a", "d", "o", "w">>,
     <<"1", "2", "3", "1", "2", "3">>,
     <<"6", "5", "4", "3", "2", "1">>,
     <<"s", "u", "p", "e", "r", "m", "a", "n">>,
     <<"q", "a", "z", "w", "s", "x">>,
     <<"m", "i", "c", "h", "a", "e", "l">>,
     <<"f", "o", "o", "t", "b", "a", "l", "l">>,
     <<"w", "e", "l", "c", "o", "m", "e">>,
     <<"j", "e", "s", "u", "s">>,
     <<"n", "i", "n", "j", "a">>,
     <<"m", "u", "s", "t", "a", "n", "g">>,
     <<"p", "a", "s", "s", "w", "o", "r", "d", "1">>,
     <<"a", "d", "m", "i", "n">>,
     <<"r", "o", "o", "t">>,
     <<"m", "o", "n", "i", "t", "o", "r", "i", "x">> >>

(* default_policy.                                                         *)
min_length == 8
max_length == 128
default_policy == [min_length |-> min_length, max_length |-> max_length, require_uppercase |-> TRUE, require_lowercase |-> TRUE, require_digits |-> TRUE, require_special |-> FALSE, check_common |-> TRUE]

SpecialChars == {"\"", "\\", "!", "@", "#", "$", "%", "^", "&", "*", "(", ")", "_", "+", "-", "=", "[", "]", "{", "}", ";", "'", ":", "|", ",", ".", "<", ">", "/", "?"}
HasSpecial(s) == \E i \in 1..Len(s) : s[i] \in SpecialChars

(* The messages of validate, with the lengths of default_policy.           *)
Message ==
  [too_short |-> "Password must be at least 8 characters long",
   too_long |-> "Password must be no more than 128 characters long",
   no_upper |-> "Password must contain at least one uppercase letter",
   no_lower |-> "Password must contain at least one lowercase letter",
   no_digit |-> "Password must contain at least one digit",
   no_special |-> "Password must contain at least one special character",
   too_common |-> "Password is too common or weak",
   has_username |-> "Password cannot contain your username",
   has_email |-> "Password cannot contain your email address",
   repeated |-> "Password cannot contain the same character repeated 4 or more times"]

(* errors.append(message) when the condition holds.                        *)
Item(cond, message) == IF cond THEN <<message>> ELSE <<>>

IsCommon(password) == \E password_lower \in {Lower(password)} : \E k \in 1..Len(COMMON_PASSWORDS) : \E common \in {Lower(COMMON_PASSWORDS[k])} : Contains(common, password_lower) \/ Contains(password_lower, common)

(* PasswordPolicy.validate: the list of errors, in the order of the checks.*)
(* An absent username or email is the empty string: both are falsy.        *)
Errors(policy, password, username, email) ==
  Item(Len(password) < policy.min_length, Message.too_short)
  \o Item(Len(password) > policy.max_length, Message.too_long)
  \o Item(policy.require_uppercase /\ ~HasUpper(password), Message.no_upper)
  \o Item(policy.require_lowercase /\ ~HasLower(password), Message.no_lower)
  \o Item(policy.require_digits /\ ~HasDigit(password), Message.no_digit)
  \o Item(policy.require_special /\ ~HasSpecial(password), Message.no_special)
  \o Item(policy.check_common /\ IsCommon(password), Message.too_common)
  \o Item(username # <<>> /\ Contains(Lower(username), Lower(password)), Message.has_username)
  \o Item(email # <<>> /\ LocalPart(email) # <<>> /\ Contains(Lower(LocalPart(email)), Lower(password)), Message.has_email)
  \o Item(HasRepeat(password), Message.repeated)

(* Python values: a list of strings, and None.                             *)
PyList(items) == [type |-> "list", items |-> items]
PyNone == [type |-> "NoneType", items |-> <<>>]

(* validate_password(password, username, email) with the default policy:   *)
(* `return len(errors) == 0, errors`.                                      *)
validate_password(password, username, email) ==
  CHOOSE r \in {[is_valid |-> Len(errors) = 0, error |-> PyList(errors)] : errors \in {Errors(default_policy, password, username, email)}} : TRUE

(* The passwords, usernames and emails of the calls.                       *)
LongPassword == [i \in 1..(max_length + 1) |-> "a"]
EdgePassword == [i \in 1..max_length |-> IF i = 1 THEN "Q" ELSE IF i % 3 = 0 THEN "7" ELSE IF i % 3 = 1 THEN "x" ELSE "k"]
SamplePasswords ==
  { LongPassword, EdgePassword,
    <<"s", "h", "o", "r", "t">>,
    <<"t", "e", "s", "t", "u", "s", "e", "r", "1", "2", "3", "!">>,
    <<"t", "e", "s", "t", "@", "e", "x", "a", "m", "p", "l", "e", ".", "c", "o", "m", "1", "2", "3", "!">>,
    <<"V", "a", "l", "i", "d", "P", "a", "s", "s", "w", "o", "r", "d", "1", "2", "3", "!", "@", "#">>,
    <<"X", "k", "7", "m", "q", "9", "L", "w">>,
    <<"S", "h", "o", "r", "t", "1">>,
    <<"T", "e", "s", "t", "9", "x", "y", "z", "w">>,
    <<"A", "a", "a", "a", "b", "1", "x", "y", "z">>,
    <<"A", "a", "a", "a", "a", "b", "1", "x", "y", "z">>,
    <<"X", "K", "7", "M", "Q", "9", "L", "W">>,
    <<"x", "k", "m", "q", "L", "w", "z", "v">>,
    <<"A", "d", "m", "i", "n", "2", "Z", "q", "7">> }
SampleUsernames == { <<>>, <<"t", "e", "s", "t", "u", "s", "e", "r">>, <<"x", "k", "7">> }
SampleEmails == { <<>>, <<"t", "e", "s", "t", "@", "e", "x", "a", "m", "p", "l", "e", ".", "c", "o", "m">>, <<"m", "q", "9", "@", "e", "x", "a", "m", "p", "l", "e", ".", "c", "o", "m">> }

(* One call validate_password(password, username, email).                  *)
Validate(password, username, email) ==
  /\ \E r \in {validate_password(password, username, email)} :
       checked' = [called |-> TRUE, password |-> password, username |-> username, email |-> email, is_valid |-> r.is_valid, error |-> r.error]
  /\ lastOp' = [op |-> "validate_password", by |-> "request", id |-> NULL, res |-> "returned"]
  /\ UNCHANGED <<serverState, users, issued, http>>

NextPolicy ==
  \E password \in SamplePasswords, username \in SampleUsernames, email \in SampleEmails :
    Validate(password, username, email)

SpecPolicy == Init /\ [][NextPolicy]_vars

(* ================================================================ claims *)
IsCheckStep == lastOp'.op = "check_service"

AlertsKeptExcept(s) ==
  /\ Len(alerts') = Len(alerts)
  /\ \A a \in 1..Len(alerts) :
       IF alerts[a].service_id = s /\ ~alerts[a].is_resolved
       THEN alerts'[a] = [alerts[a] EXCEPT !.is_resolved = TRUE,
                                           !.resolved_at = now]
       ELSE alerts'[a] = alerts[a]

C1_CheckEffect ==
  IsCheckStep =>
    LET s == lastOp'.id
        r == lastOp'.res
    IN /\ (r = "down" /\ health[s] # "down") =>
             /\ alerts' = Append(alerts, NewAlert("service_down", "critical",
                                                  NULL, NULL, s))
       /\ (r = "down" /\ health[s] = "down") => alerts' = alerts
       /\ (r # "down") =>
             /\ AlertsKeptExcept(s)
             /\ now # NULL
             /\ UnresolvedForService([alerts |-> alerts'], s) = {}

(* C1: under sequential check_service results for a service, at most one   *)
(* unresolved Alert is linked to the service after every check; the first  *)
(* `down` of a run creates exactly one service_down Alert, a further       *)
(* consecutive `down` creates none, and the first `up` or `warning` marks  *)
(* it resolved with resolved_at set.                                       *)
C1_NoDuplicateServiceAlerts ==
  /\ [](\A s \in Services : Cardinality(UnresolvedForService(Store, s)) <= 1)
  /\ [][C1_CheckEffect]_vars

(* A service whose earlier incident was resolved by a recovery and whose   *)
(* new run of `down` results holds one unresolved alert.                   *)
C1_Witness ==
  \E s \in Services :
    /\ lastOp.op = "check_service" /\ lastOp.id = s /\ lastOp.res = "down"
    /\ \E a \in 1..Len(alerts) :
         alerts[a].service_id = s /\ alerts[a].is_resolved
         /\ alerts[a].resolved_at # NULL
    /\ Cardinality(UnresolvedForService(Store, s)) = 1

(* C4: when a periodic and a manual check_service of one service overlap   *)
(* and both obtain `down` while the service has no unresolved alert, only  *)
(* one of them creates an Alert and one set of notifications is sent.      *)
C4_OverlapCreatesOneAlert ==
  \A s \in Services :
    LET U == UnresolvedForService(Store, s)
    IN /\ \A a, b \in U : a = b
       /\ \A a \in U, r \in Receivers : attempts[a][r] <= 1

IsNodeTick == lastOp'.op = "node_tick"

NodeDownAlert(n) == NewAlert("node_down", "critical", n, NULL, NULL)

NodeDownAlerts(al, n) ==
  {a \in 1..Len(al) : al[a].alert_type = "node_down" /\ al[a].node_id = n}

(* C2: for a node whose stored status is online, a run of failed           *)
(* connection tests seen by successive run_node_checks ticks creates one   *)
(* node_down Alert, on the first failed poll, and none on the later ones.  *)
C2_EdgeTriggeredNodeDown ==
  [][(IsNodeTick /\ lastOp'.res = "fail") =>
       LET n == lastOp'.id
           before == Cardinality(NodeDownAlerts(alerts, n))
           after == Cardinality(NodeDownAlerts(alerts', n))
       IN /\ (lastOp # lastOp' /\ nodes[n].status = "online")
                => after = before + 1
          /\ (lastOp = lastOp') => after = before]_vars

AlertKey(a) == <<a.alert_type, a.node_id, a.vm_id, a.service_id>>

(* C3: no reachable state holds two unresolved Alerts with the same        *)
(* (alert_type, node_id, vm_id, service_id).                               *)
C3_NoDuplicateUnresolved ==
  \A a, b \in 1..Len(alerts) :
    (a # b /\ ~alerts[a].is_resolved /\ ~alerts[b].is_resolved)
      => AlertKey(alerts[a]) # AlertKey(alerts[b])

(* C5: a run_node_checks tick for a node in maintenance mode issues no     *)
(* Proxmox call (connection test, status fetch, VM listing) and creates no *)
(* node_down Alert for it.                                                 *)
C5_MaintenanceNeverPolled ==
  [][(IsNodeTick /\ nodes[lastOp'.id].maintenance_mode) =>
       /\ calls' = {}
       /\ \A a \in 1..Len(alerts') :
            (alerts'[a].alert_type = "node_down"
             /\ alerts'[a].node_id = lastOp'.id) => a \in 1..Len(alerts)]_vars

(* C10: every Alert gets exactly one delivery attempt per admitted         *)
(* receiver and none for the others; attempts are never repeated later;    *)
(* a poll that repeats the previous down or offline result of the same     *)
(* target sends no notification for that incident.                         *)
C10_OneAttemptNoRepeat ==
  /\ [](\A a \in 1..Len(alerts) : \A r \in Receivers :
          attempts[a][r] =
            IF r \in FanoutTargets(alerts[a].alert_type, alerts[a].severity)
            THEN 1 ELSE 0)
  /\ [][\A a \in 1..Len(alerts) : attempts'[a] = attempts[a]]_vars
  /\ [][(lastOp' = lastOp /\ lastOp'.res \in {"fail", "down"}) =>
          \A a \in (Len(alerts) + 1)..Len(alerts') :
            alerts'[a].alert_type \in {"node_down", "service_down"}
              => attempts'[a] = NoAttempts]_vars

IsEvalStep == lastOp'.op = "evaluate"

(* The rules of the evaluation that breach the evaluated value.            *)
Breaching(e) ==
  {r \in e.considered : evaluate_rule(rules[r], e.value)}

InCooldown(r) ==
  /\ rules[r].last_triggered # NULL
  /\ now <= rules[r].last_triggered + rules[r].cooldown_minutes

(* The unresolved high_usage alerts with exactly the ids of evaluation e.  *)
SameSubjectAlerts(e) ==
  {a \in 1..Len(alerts) :
     /\ alerts[a].alert_type = "high_usage"
     /\ ~alerts[a].is_resolved
     /\ alerts[a].node_id = e.node_id
     /\ alerts[a].vm_id = e.vm_id
     /\ alerts[a].service_id = e.service_id}

(* C6 as stated: a rule triggers only when now > last_triggered +          *)
(* cooldown_minutes or last_triggered is unset; a breaching evaluation     *)
(* whose rules are all inside their cooldown creates no Alert, and one     *)
(* with a rule outside its cooldown creates a new Alert.                   *)
C6_CooldownAsStated ==
  [][IsEvalStep =>
       /\ \A r \in RuleIds : rules'[r] # rules[r] => ~InCooldown(r)
       /\ (\A r \in Breaching(lastEval') : InCooldown(r)) => alerts' = alerts
       /\ (\E r \in Breaching(lastEval') : ~InCooldown(r))
            => Len(alerts') = Len(alerts) + 1]_vars

(* C6 amended: as C6, except that the evaluation with a breaching rule     *)
(* outside its cooldown creates the new Alert provided no unresolved       *)
(* high_usage Alert with the same node_id, vm_id and service_id exists.    *)
C6_CooldownGate ==
  [][IsEvalStep =>
       /\ \A r \in RuleIds : rules'[r] # rules[r] => ~InCooldown(r)
       /\ (\A r \in Breaching(lastEval') : InCooldown(r)) => alerts' = alerts
       /\ ((\E r \in Breaching(lastEval') : ~InCooldown(r))
           /\ SameSubjectAlerts(lastEval') = {})
            => Len(alerts') = Len(alerts) + 1]_vars

(* A rule that triggered, and triggered again once its cooldown was over.  *)
C6_Witness ==
  /\ lastOp.op = "evaluate"
  /\ Len(alerts) = 2
  /\ \E r \in RuleIds :
       /\ rules[r].last_triggered = now
       /\ now > rules[r].cooldown_minutes
       /\ \A q \in RuleIds \ {r} : rules[q].last_triggered = NULL

(* The rules one step wrote to.                                            *)
WrittenRules == {r \in RuleIds : rules'[r] # rules[r]}

InScope(r, e) ==
  /\ rules[r].is_active
  /\ rules[r].metric_type = e.metric_type
  /\ (rules[r].node_id = NULL \/ rules[r].node_id = e.node_id)
  /\ (rules[r].vm_id = NULL \/ rules[r].vm_id = e.vm_id)
  /\ (rules[r].service_id = NULL \/ rules[r].service_id = e.service_id)

(* C8: the rules an evaluation considers are exactly the rules in scope,   *)
(* and only a rule in scope fires.                                         *)
C8_ScopeSelection ==
  /\ [](lastOp.op = "evaluate" =>
          lastEval.considered = {r \in RuleIds : InScope(r, lastEval)})
  /\ [][IsEvalStep => \A r \in WrittenRules : InScope(r, lastEval')]_vars

(* An unscoped rule fired for node 2 while a rule scoped to node 1 was     *)
(* left out.                                                               *)
C8_Witness ==
  /\ lastOp.op = "evaluate"
  /\ lastEval.node_id = 2
  /\ \E r, q \in RuleIds :
       /\ rules[r].node_id = NULL /\ rules[r].last_triggered = now
       /\ Len(alerts) > 0 /\ alerts[Len(alerts)].node_id = 2
       /\ rules[q].node_id = 1 /\ rules[q].is_active
       /\ rules[q].metric_type = lastEval.metric_type
       /\ q \notin lastEval.considered

(* C9: an evaluation with a breaching rule out of cooldown leaves the      *)
(* alerts as they are exactly when an unresolved high_usage Alert with the *)
(* same node_id, vm_id and service_id exists, unset matching only unset.   *)
C9_DedupOnExactSubject ==
  [][(IsEvalStep /\ \E r \in Breaching(lastEval') : ~InCooldown(r)) =>
       ((alerts' = alerts) <=> (SameSubjectAlerts(lastEval') # {}))]_vars

(* The evaluation of a VM created an Alert while an unresolved Alert of    *)
(* its node, with no vm_id, existed.                                       *)
C9_Witness ==
  /\ lastOp.op = "evaluate"
  /\ lastEval.node_id = 1 /\ lastEval.vm_id = 1
  /\ \E a, b \in 1..Len(alerts) :
       /\ a < b /\ b = Len(alerts)
       /\ \A x \in {a, b} :
            alerts[x].alert_type = "high_usage" /\ ~alerts[x].is_resolved
       /\ alerts[a].node_id = 1 /\ alerts[a].vm_id = NULL
       /\ alerts[b].node_id = 1 /\ alerts[b].vm_id = 1
       /\ \E r \in RuleIds : rules[r].last_triggered = now

(* C11: no exception leaves a run of run_node_checks or                    *)
(* run_service_checks, and the targets the job has passed have all been    *)
(* processed: none is skipped, whatever happened to its siblings.          *)
C11_JobIsolation ==
  /\ ~job.raised
  /\ (job.kind # "none" /\ job.pos > Len(job.queue))
       => job.done = {job.queue[i] : i \in 1..Len(job.queue)}

(* C12: an Alert created while receivers fail their delivery is stored     *)
(* unresolved, every admitted receiver of every category has been          *)
(* attempted once, and the check that created it ran to its end: the       *)
(* failure neither stops the fan-out nor reaches the caller.               *)
C12_DeliveryFailureSwallowed ==
  [][IsCheckStep =>
       /\ health'[lastOp'.id] = lastOp'.res
       /\ \A a \in (Len(alerts) + 1)..Len(alerts') :
            /\ ~alerts'[a].is_resolved
            /\ \A r \in Receivers :
                 attempts'[a][r] =
                   IF r \in FanoutTargets(alerts'[a].alert_type,
                                          alerts'[a].severity)
                   THEN 1 ELSE 0]_vars

(* A check created an Alert while the SMTP server failed: the webhooks and *)
(* the chat channel were still called.                                     *)
C12_Witness ==
  /\ lastOp.op = "check_service" /\ lastOp.res = "down"
  /\ "email" \in outage
  /\ Len(alerts) > 0
  /\ alerts[Len(alerts)].service_id = lastOp.id
  /\ ~alerts[Len(alerts)].is_resolved
  /\ attempts[Len(alerts)]["email"] = 1
  /\ attempts[Len(alerts)]["wh_svc"] = 1
  /\ attempts[Len(alerts)]["ch_all"] = 1

(* The first event of the unit of work that event i of the trace is in.    *)
UnitStart(i) ==
  LET polls == {j \in 1..i : trace[j].ev = "poll"}
  IN IF polls = {} THEN 1 ELSE CHOOSE j \in polls : \A k \in polls : k <= j

UnitEnd(i) ==
  LET polls == {j \in (i + 1)..Len(trace) : trace[j].ev = "poll"}
  IN IF polls = {} THEN Len(trace)
     ELSE (CHOOSE j \in polls : \A k \in polls : j <= k) - 1

TargetUpdates == {"node_update", "vms_update", "service_update"}

IsNodePoll == lastOp'.op \in {"node_tick", "sync_node"}

(* The status the poll of the step assigned to the node object.            *)
PolledStatus ==
  IF lastOp'.res = "fail"
  THEN "offline"
  ELSE LET upd == {i \in 1..Len(trace') : trace'[i].ev = "node_update"}
       IN trace'[CHOOSE i \in upd : TRUE].arg

(* C14: a poll of a node that is not in maintenance leaves the status it   *)
(* found in the stored node row, whether run_node_checks or the sync_node  *)
(* handler made the call, so that the next poll reads that status.         *)
C14_SameEffectForEveryCaller ==
  [][(IsNodePoll /\ lastOp'.res # "none") =>
       nodes'[lastOp'.id].status = PolledStatus]_vars

(* C15: a poll that finds a node unreachable which was not offline before  *)
(* broadcasts a node_update event with status offline, and no event        *)
(* reporting an error.                                                     *)
C15_OfflineIsBroadcast ==
  [][(IsNodePoll /\ lastOp'.res = "fail"
      /\ nodes[lastOp'.id].status # "offline") =>
       /\ \E i \in 1..Len(trace') :
            trace'[i] = [ev |-> "node_update", arg |-> "offline"]
       /\ \A i \in 1..Len(trace') : trace'[i].arg # "error"]_vars

(* C16: the VM table holds at most one row per (node, vmid), and a poll    *)
(* whose list names a VM that has a row inserts no row for it and leaves   *)
(* the row where it is; no poll adds or removes a node row.                *)
C16_IdempotentUpsert ==
  /\ [](\A i, j \in 1..Len(vms) :
          (vms[i].node_id = vms[j].node_id /\ vms[i].vmid = vms[j].vmid)
            => i = j)
  /\ [][IsNodePoll =>
          /\ DOMAIN nodes' = DOMAIN nodes
          /\ SubSeq(vms', 1, Len(vms)) = vms
          /\ \A v \in SyncVmIds :
               ExistingVm(vms, lastOp'.id, v) # {} =>
                 ExistingVm(vms', lastOp'.id, v)
                   = ExistingVm(vms, lastOp'.id, v)]_vars

(* A poll found its VM stored by an earlier poll and updated the row.      *)
C16_Witness ==
  /\ lastOp.op \in {"node_tick", "sync_node"}
  /\ \E i \in 1..Len(trace) : trace[i] = [ev |-> "stage", arg |-> "vm_update"]
  /\ \E v \in SyncVmIds : Cardinality(ExistingVm(vms, lastOp.id, v)) = 1

(* C17: after overlapping sync_vms runs for a node have finished, the VM   *)
(* table holds at most one row for every (node, vmid).                     *)
C17_NoDuplicateVmRows ==
  vmtask.pc = "idle" =>
    \A i, j \in 1..Len(vms) :
      (vms[i].node_id = vms[j].node_id /\ vms[i].vmid = vms[j].vmid)
        => i = j

SentTo(c) == {i \in 1..Len(bcast.sent) : bcast.sent[i] = c}

(* C18: when a broadcast completes, the connections whose send failed are  *)
(* out of the registry and those whose send succeeded are still in it      *)
(* unless they disconnected themselves; while the broadcast is in its send *)
(* pass, nothing changes the registry.                                     *)
C18_PruneAfterPass ==
  [][/\ lastOp'.op = "broadcast_done" =>
          /\ \A c \in Range(bcast.disconnected) : c \notin Range(registry')
          /\ \A c \in Range(registry) \ Range(bcast.disconnected) :
               c \in Range(registry')
     /\ bcast.pc = "iter" /\ bcast'.pc = "iter" => registry' = registry]_vars

(* C19: a broadcast has attempted delivery exactly once to every           *)
(* connection registered from its start to its end, and to no connection   *)
(* more than once.                                                         *)
C19_EveryoneOnce ==
  [][lastOp'.op = "broadcast_done" =>
       /\ \A c \in bcast.stayed : Cardinality(SentTo(c)) = 1
       /\ \A c \in 1..NumConns : Cardinality(SentTo(c)) <= 1]_vars

(* C20: for every Alert, a chat channel was called exactly when it is      *)
(* active, its alert_types is empty or holds the alert's type and its      *)
(* severity_filter is empty or holds the alert's severity; a webhook was   *)
(* called exactly when it is active and its alert_types is empty or holds  *)
(* the alert's type.                                                       *)
C20_FilteredDispatch ==
  \A a \in 1..Len(alerts) :
    /\ \A c \in Channels :
         attempts[a][c] > 0 <=>
           /\ ChannelCfg[c].is_active
           /\ \/ ChannelCfg[c].alert_types = {}
              \/ alerts[a].alert_type \in ChannelCfg[c].alert_types
           /\ \/ ChannelCfg[c].severity_filter = {}
              \/ alerts[a].severity \in ChannelCfg[c].severity_filter
    /\ \A w \in Webhooks :
         attempts[a][w] > 0 <=>
           /\ WebhookCfg[w].is_active
           /\ \/ WebhookCfg[w].alert_types = {}
              \/ alerts[a].alert_type \in WebhookCfg[w].alert_types

(* A warning high_usage Alert: the channel that admits only critical ones  *)
(* and the webhook that admits only service_down got no call, the          *)
(* unfiltered channel and webhook got theirs.                              *)
C20_Witness ==
  \E a \in 1..Len(alerts) :
    /\ alerts[a].alert_type = "high_usage" /\ alerts[a].severity = "warning"
    /\ attempts[a]["ch_crit"] = 0 /\ attempts[a]["wh_svc"] = 0
    /\ attempts[a]["wh_off"] = 0
    /\ attempts[a]["ch_all"] = 1 /\ attempts[a]["wh_all"] = 1

IsCleanup == lastOp'.op = "cleanup"

(* C21: a run of the retention job leaves the stored samples unchanged     *)
(* when the flag is off or the run rolled back, and otherwise leaves       *)
(* exactly the samples recorded at or after now minus the retention        *)
(* window, each of them still there.                                       *)
C21_RetentionAllOrNothing ==
  [][IsCleanup =>
       LET cutoff == now - RetentionDays
           old == {i \in 1..Len(metrics) : metrics[i] < cutoff}
           Recent(recorded_at) == recorded_at >= cutoff
       IN /\ (~cleanup_enabled \/ lastOp'.res = "rolled_back")
               => metrics' = metrics
          /\ (cleanup_enabled /\ lastOp'.res = "ok")
               => /\ metrics' = SelectSeq(metrics, Recent)
                  /\ Len(metrics') = Len(metrics) - Cardinality(old)
          /\ \A i \in 1..Len(metrics') : metrics'[i] >= cutoff
                                         \/ metrics' = metrics]_vars

(* A run removed an old sample and kept one recorded exactly at the cutoff.*)
C21_Witness ==
  /\ lastOp.op = "cleanup" /\ lastOp.res = "ok" /\ lastOp.id = 1
  /\ metrics = <<now - RetentionDays>>

(* C22: every call of HealthChecker.check_service returns, with a status   *)
(* of up, down or warning, and a probe that met a timeout, an error or a   *)
(* wrong exit code, or that lacks its port, its command or a known type,   *)
(* returns down with an error message.                                     *)
C22_CheckerNeverRaises ==
  probe.called =>
    /\ ~probe.result.raised
    /\ probe.result.status \in {"up", "down", "warning"}
    /\ (\/ probe.seen \in {"timeout", "error"}
        \/ probe.type = "custom" /\ probe.seen = "unexpected"
        \/ probe.type = "port" /\ probe.port = NULL
        \/ /\ probe.type = "custom"
           /\ probe.custom_command \in {None, ""}
           /\ probe.custom_script \in {None, ""}
        \/ probe.type \notin {"http", "https", "ping", "port", "custom"})
         => /\ probe.result.status = "down"
            /\ probe.result.error_message # None

(* C23: while one job waits on a remote call, the other job, when it has a *)
(* target left and is not waiting itself, can start its next call.         *)
C23_JobsDoNotBlockEachOther ==
  \A j \in Jobs, k \in Jobs :
    (/\ j # k
     /\ sched[j].wait # "none"
     /\ sched[k].wait = "none"
     /\ sched[k].pos <= NumTargets)
      => ENABLED (\E call \in RemoteCalls(k) : CallRemote(k, call))

(* C24: evaluate_rule compares the value with the threshold by the rule's  *)
(* operator, `==` meaning a distance below 0.01: 90.005 matches a          *)
(* threshold of 90 and 90.02 does not; any other operator gives False.     *)
C24_Comparators ==
  cmp.called =>
    LET v == cmp.value
        t == cmp.threshold
    IN /\ cmp.operator = ">" => (cmp.result <=> v > t)
       /\ cmp.operator = "<" => (cmp.result <=> v < t)
       /\ cmp.operator = ">=" => (cmp.result <=> v >= t)
       /\ cmp.operator = "<=" => (cmp.result <=> v <= t)
       /\ cmp.operator = "==" =>
            (cmp.result <=> (v - t) * 100 < Scale /\ (t - v) * 100 < Scale)
       /\ cmp.operator \notin {">", "<", ">=", "<=", "=="} => ~cmp.result
       /\ (cmp.operator = "==" /\ t = 90 * Scale /\ v = 90 * Scale + 5)
            => cmp.result
       /\ (cmp.operator = "==" /\ t = 90 * Scale /\ v = 90 * Scale + 20)
            => ~cmp.result

(* evaluate_rule matched 90.005 against `== 90`.                           *)
C24_Witness ==
  /\ cmp.called
  /\ cmp.operator = "==" /\ cmp.threshold = 90 * Scale
  /\ cmp.value = 90 * Scale + 5
  /\ cmp.result

(* C25: a login of an existing active user without two-factor login with   *)
(* the right password is answered 200 with an access token, a refresh     *)
(* token and token_type bearer; a login with an unknown name or a wrong    *)
(* password is answered 401 without a token; a request without a token is  *)
(* answered 401, one with an issued access token 200 as the token's user.  *)
C25_LoginContract ==
  /\ (/\ http.op = "login"
      /\ http.username \in UserNames
      /\ http.password = "right"
      /\ users[http.username].is_active
      /\ ~users[http.username].totp_enabled)
       => /\ http.status = 200
          /\ http.access_token = [type |-> "access", sub |-> http.username]
          /\ http.refresh_token # NoToken
          /\ http.token_type = "bearer"
  /\ (/\ http.op = "login"
      /\ (http.username \notin UserNames \/ http.password # "right"))
       => /\ http.status = 401
          /\ http.access_token = NoToken /\ http.refresh_token = NoToken
  /\ (http.op = "me" /\ http.token = NoToken) => http.status = 401
  /\ (/\ http.op = "me"
      /\ http.token \in issued
      /\ users[http.token.sub].is_active)
       => http.status = 200 /\ http.user = http.token.sub


(* The error value holds the message of a rule.                            *)
Names(error, message) == error.type = "list" /\ \E i \in 1..Len(error.items) : error.items[i] = message

(* No rule of the default policy is violated.                              *)
MeetsEveryRule(password, username, email) ==
  /\ Len(password) >= min_length
  /\ Len(password) <= max_length
  /\ HasUpper(password) /\ HasLower(password) /\ HasDigit(password)
  /\ ~IsCommon(password)
  /\ ~(username # <<>> /\ Contains(Lower(username), Lower(password)))
  /\ ~(email # <<>> /\ LocalPart(email) # <<>> /\ Contains(Lower(LocalPart(email)), Lower(password)))
  /\ ~HasRepeat(password)

(* C26: validate_password returns (is_valid, error) with is_valid false    *)
(* and an error naming the violated rule when the password is shorter than *)
(* the minimum length, longer than the maximum length (128), contains the  *)
(* username or contains the email, and returns is_valid true with error    *)
(* None for a password that meets every rule.                              *)
C26_ValidatePassword ==
  checked.called =>
    /\ Len(checked.password) < min_length
         => ~checked.is_valid /\ Names(checked.error, Message.too_short)
    /\ Len(checked.password) > max_length
         => ~checked.is_valid /\ Names(checked.error, Message.too_long)
    /\ (checked.username # <<>> /\ Contains(checked.username, checked.password))
         => ~checked.is_valid /\ Names(checked.error, Message.has_username)
    /\ (checked.email # <<>> /\ Contains(checked.email, checked.password))
         => ~checked.is_valid /\ Names(checked.error, Message.has_email)
    /\ MeetsEveryRule(checked.password, checked.username, checked.email)
         => checked.is_valid /\ checked.error = PyNone


(* The vmids a polled list names.                                          *)
Polled(vms_data) == {vms_data[k].vmid : k \in 1..Len(vms_data)}

(* C27: sync_vms changes only VM rows whose vmid appears in the polled     *)
(* list: a stored row of the node whose vmid is absent from the poll       *)
(* (also when the poll fails and returns no VMs) is neither deleted nor    *)
(* modified, and the rows of other nodes are never touched.  Stated of     *)
(* what a poll of any node with any list writes to the table as it stands. *)
C27_SyncFrame ==
  \A n \in JobNodes, o \in OnlineOutcomes, vms_data \in StatusLists,
     perm \in Orders(RuleIds) :
    \A after \in {CheckAndSync(n, o, vms_data, perm).vms} :
      /\ Len(after) >= Len(vms)
      /\ \A i \in 1..Len(vms) :
           /\ after[i].node_id = vms[i].node_id
           /\ after[i].vmid = vms[i].vmid
           /\ after[i] # vms[i] =>
                (vms[i].node_id = n /\ vms[i].vmid \in Polled(vms_data))

(* A poll updated one row of a node that has a second row, written before  *)
(* the clock moved and left as it was, beside a row of the other node.     *)
C27_Witness ==
  /\ lastOp.op = "node_tick"
  /\ now > 0
  /\ \E i \in 1..Len(trace) : trace[i] = [ev |-> "stage", arg |-> "vm_update"]
  /\ \E i, j, k \in 1..Len(vms) :
       /\ vms[i].node_id = lastOp.id /\ vms[i].last_check = now
       /\ vms[j].node_id = lastOp.id /\ vms[j].last_check < now
       /\ vms[k].node_id # lastOp.id


(* C28: in every reachable state an Alert has resolved_at set exactly when *)
(* is_resolved is true, and no operation (the recovery branch of           *)
(* check_service, the single resolve, the bulk resolve) turns a resolved   *)
(* Alert back to unresolved.                                               *)
C28_ResolvedForGood ==
  /\ [](\A a \in 1..Len(alerts) :
          alerts[a].is_resolved <=> alerts[a].resolved_at # NULL)
  /\ [][\A a \in 1..Len(alerts) :
          alerts[a].is_resolved =>
            (a <= Len(alerts') /\ alerts'[a].is_resolved)]_vars

(* A bulk resolve closed an alert after a service recovery and a single    *)
(* resolve had closed others at earlier times.                             *)
C28_Witness ==
  /\ lastOp.op = "bulk_resolve"
  /\ lastOp.id > 0
  /\ \E a, b \in 1..Len(alerts) :
       /\ alerts[a].is_resolved /\ alerts[a].resolved_at = now
       /\ alerts[b].is_resolved /\ alerts[b].resolved_at # NULL
       /\ alerts[b].resolved_at < now


(* C29: no Alert is created and no notification is sent for a service      *)
(* while its maintenance_mode is true or its is_active is false, whether   *)
(* the check is run by the periodic service job or by the manual check     *)
(* endpoint.                                                               *)
C29_QuietInMaintenance ==
  [][(IsCheckStep
      /\ (services[lastOp'.id].maintenance_mode
          \/ ~services[lastOp'.id].is_active))
       => (alerts' = alerts /\ attempts' = attempts)]_vars


(* C30: the rule engine never resolves a high_usage Alert itself: an       *)
(* evaluation leaves every stored Alert as it is, and while an unresolved  *)
(* high_usage Alert exists for a subject (node_id, vm_id, service_id) an   *)
(* evaluation for that subject, of any metric type and by any rule,        *)
(* creates no Alert and changes no rule's last_triggered; that lasts until *)
(* the Alert is resolved through the alerts API.                           *)
C30_NoRetriggerWhileOpen ==
  [][IsEvalStep =>
       /\ \A a \in 1..Len(alerts) :
            a <= Len(alerts') /\ alerts'[a] = alerts[a]
       /\ SameSubjectAlerts(lastEval') # {} =>
            /\ alerts' = alerts
            /\ \A r \in RuleIds :
                 rules'[r].last_triggered = rules[r].last_triggered]_vars

(* A memory evaluation breached a rule that never triggered, for a subject *)
(* whose unresolved Alert a cpu rule had created, and was skipped.         *)
C30_Witness ==
  /\ lastOp.op = "evaluate"
  /\ lastEval.metric_type = "memory"
  /\ SameSubjectAlerts(lastEval) # {}
  /\ \E r \in Breaching(lastEval) : rules[r].last_triggered = NULL
  /\ \E r \in RuleIds :
       rules[r].metric_type = "cpu" /\ rules[r].last_triggered # NULL

====
